---- MODULE Spec2Model ----
(***************************************************************************)
(* A state-machine model of phantom-persona: the plugin registry and the   *)
(* protection-level table, the ContextManager, the PhantomPersona client,  *)
(* the Session and the Persona.  The browser engine (Playwright) is the    *)
(* environment: each engine call either succeeds or raises.                *)
(***************************************************************************)
EXTENDS Integers, Sequences, FiniteSets, TLC

(***************************************************************************)
(* Bounds of the model.                                                    *)
(***************************************************************************)
MaxInstances == 4
MaxUses == 3
MaxPages == 2
MaxText == 2
MaxPlugins == 2
MaxClock == 2
MaxFails == 5
MaxAtoms == 5

(***************************************************************************)
(* Values shared by the components.                                        *)
(***************************************************************************)
None == "None"
BrowserTypes == {"chromium", "firefox", "webkit"}

(***************************************************************************)
(* config/levels.py: ProtectionLevel and LEVEL_PLUGINS.                    *)
(***************************************************************************)
ProtectionLevel == 0..4

\* a table whose level 2 drops a name of level 1
LEVEL_PLUGINS_NOT_CUMULATIVE ==
    [level \in ProtectionLevel |->
        CASE level = 0 -> <<>>
          [] level = 2 -> <<"stealth.basic", "stealth.chrome",
                            "fingerprint.canvas">>
          [] OTHER -> <<"stealth.basic", "fingerprint.navigator">>]

LEVEL_PLUGINS ==
    [level \in ProtectionLevel |->
        CASE level = 0 -> <<>>
          [] level = 1 -> <<"stealth.basic", "fingerprint.navigator">>
          [] level = 2 -> <<"stealth.basic", "stealth.chrome",
                            "fingerprint.navigator", "fingerprint.canvas",
                            "fingerprint.webgl", "fingerprint.fonts",
                            "behavior.delays">>
          [] level = 3 -> <<"stealth.basic", "stealth.chrome",
                            "stealth.permissions",
                            "fingerprint.navigator", "fingerprint.canvas",
                            "fingerprint.webgl", "fingerprint.fonts",
                            "fingerprint.audio", "fingerprint.screen",
                            "behavior.delays", "behavior.mouse",
                            "behavior.scroll", "behavior.typing",
                            "proxy.timezone">>
          [] level = 4 -> <<"stealth.basic", "stealth.chrome",
                            "stealth.permissions", "stealth.cdp",
                            "stealth.iframe",
                            "fingerprint.navigator", "fingerprint.canvas",
                            "fingerprint.webgl", "fingerprint.fonts",
                            "fingerprint.audio", "fingerprint.screen",
                            "fingerprint.webrtc", "fingerprint.battery",
                            "behavior.delays", "behavior.mouse",
                            "behavior.scroll", "behavior.typing",
                            "behavior.interactions", "behavior.patterns",
                            "proxy.timezone", "proxy.geo",
                            "quirks.plugins", "quirks.extensions">>]

(***************************************************************************)
(* plugins/base.py: a plugin class is its name, its priority and its       *)
(* is_compatible predicate, given by the browser types it accepts.         *)
(***************************************************************************)
DefaultPriority == 100
EarlyPriority == 10

PluginNames == {"stealth.basic", "stealth.chrome", "fingerprint.navigator"}
Priorities == {EarlyPriority, DefaultPriority}
Compatibilities == {BrowserTypes, {"chromium"}, {"firefox"}}

PluginClasses ==
    [name : PluginNames, priority : Priorities, compat : Compatibilities]

\* plugin_class(): a fresh object of the class, identified by a serial number
Instantiate(plugin_class, serial) ==
    [name |-> plugin_class.name, priority |-> plugin_class.priority,
     compat |-> plugin_class.compat, id |-> serial]

\* Plugin.is_compatible(browser_type)
is_compatible(plugin, browser_type) == browser_type \in plugin.compat

(***************************************************************************)
(* sorted(plugins, key=lambda p: p.priority): Python's sort is stable, an  *)
(* element goes after every element whose key is not larger.               *)
(***************************************************************************)
RECURSIVE InsertAfterEqualOrLower(_, _)
InsertAfterEqualOrLower(sorted, p) ==
    IF sorted = <<>> THEN <<p>>
    ELSE IF Head(sorted).priority <= p.priority
         THEN <<Head(sorted)>> \o InsertAfterEqualOrLower(Tail(sorted), p)
         ELSE <<p>> \o sorted

RECURSIVE InsertBeforeEqual(_, _)
InsertBeforeEqual(sorted, p) ==
    IF sorted = <<>> THEN <<p>>
    ELSE IF Head(sorted).priority < p.priority
         THEN <<Head(sorted)>> \o InsertBeforeEqual(Tail(sorted), p)
         ELSE <<p>> \o sorted

\* a sort that is not stable: ties come out in reverse
RECURSIVE SortedByPriorityUnstable(_)
SortedByPriorityUnstable(plugins) ==
    IF plugins = <<>> THEN <<>>
    ELSE InsertBeforeEqual(
             SortedByPriorityUnstable(SubSeq(plugins, 1, Len(plugins) - 1)),
             plugins[Len(plugins)])

\* no sort: the plugins in the order of the list
InGivenOrder(plugins) == plugins

RECURSIVE SortedByPriority(_)
SortedByPriority(plugins) ==
    IF plugins = <<>> THEN <<>>
    ELSE InsertAfterEqualOrLower(
             SortedByPriority(SubSeq(plugins, 1, Len(plugins) - 1)),
             plugins[Len(plugins)])

\* the same loop without the compatibility test
RECURSIVE CollectForLevelUnfiltered(_, _, _, _)
CollectForLevelUnfiltered(plugin_names, registered, browser_type, serial) ==
    IF plugin_names = <<>> THEN <<>>
    ELSE LET name == Head(plugin_names) IN
         IF name \notin DOMAIN registered
         THEN CollectForLevelUnfiltered(Tail(plugin_names), registered,
                                        browser_type, serial)
         ELSE <<Instantiate(registered[name], serial)>>
              \o CollectForLevelUnfiltered(Tail(plugin_names), registered,
                                           browser_type, serial + 1)

(***************************************************************************)
(* plugins/registry.py: PluginRegistry.get_for_level, the loop over the    *)
(* level's names.  A name that is not registered raises KeyError in get(), *)
(* which the loop swallows; every registered name is instantiated.         *)
(***************************************************************************)
RECURSIVE CollectForLevel(_, _, _, _)
CollectForLevel(plugin_names, registered, browser_type, serial) ==
    IF plugin_names = <<>> THEN <<>>
    ELSE LET name == Head(plugin_names) IN
         IF name \notin DOMAIN registered
         THEN CollectForLevel(Tail(plugin_names), registered, browser_type, serial)
         ELSE LET plugin == Instantiate(registered[name], serial) IN
              IF is_compatible(plugin, browser_type)
              THEN <<plugin>> \o CollectForLevel(Tail(plugin_names), registered,
                                                 browser_type, serial + 1)
              ELSE CollectForLevel(Tail(plugin_names), registered,
                                   browser_type, serial + 1)

\* the number of plugin_class() calls one get_for_level makes
InstantiatedBy(level, registered) ==
    Cardinality({i \in 1..Len(LEVEL_PLUGINS[level]) :
                    LEVEL_PLUGINS[level][i] \in DOMAIN registered})

get_for_level(registered, level, browser_type, serial) ==
    SortedByPriority(
        CollectForLevel(LEVEL_PLUGINS[level], registered, browser_type, serial))

(***************************************************************************)
(* State.                                                                  *)
(***************************************************************************)
VARIABLES
    registry_plugins,    \* PluginRegistry._plugins: name -> plugin class
    instances_created,   \* how many plugin objects have been constructed
    imported,            \* the plugin modules Python has imported
    registry_call        \* the last registry operation: arguments and outcome

registryVars ==
    <<registry_plugins, instances_created, imported, registry_call>>

VARIABLES
    cm_plugins,          \* ContextManager.plugins
    cm_browser_type,     \* ContextManager.browser_type
    cm_context,          \* ContextManager._context: None or the engine context
    cm_pc,               \* the await a ContextManager call is suspended at
    cm_todo,             \* create(): the sorted plugins the loop has yet to visit
    cm_storage,          \* close(): the local variable storage
    cm_call,             \* the last ContextManager call: caller and outcome
    ctx_state,           \* the engine's context: "none", "open" or "closed"
    ctx_applied,         \* the plugins whose apply() completed on the context
    ctx_close_calls      \* how often the engine's context.close() was called

contextVars == <<cm_plugins, cm_browser_type, cm_context, cm_pc, cm_todo,
                 cm_storage, cm_call, ctx_state, ctx_applied, ctx_close_calls>>

VARIABLES
    client_level,            \* PhantomPersona.config.level
    client_browser_type,     \* PhantomPersona.browser_type
    client_started,          \* PhantomPersona._started
    client_browser_manager,  \* PhantomPersona._browser_manager: None or set
    bm_playwright,           \* BrowserManager._playwright: None or a handle
    bm_browser,              \* BrowserManager._browser: None or a handle
    client_pc,               \* the await a client call is suspended at
    client_call              \* the last client call and its outcome

clientVars == <<client_level, client_browser_type, client_started,
                client_browser_manager, bm_playwright, bm_browser,
                client_pc, client_call>>

VARIABLES
    session_closed,        \* Session._closed
    session_pages,         \* Session._pages
    session_human_delays,  \* Session.behavior.human_delays
    session_tasks,         \* the calls on the session: each task's await
    session_marks,         \* how often Session.close() called mark_used()
    persona_use_count,     \* Persona.use_count
    persona_last_used,     \* Persona.last_used: None or a time
    persona_is_burned,     \* Persona.is_burned
    persona_cookies,       \* Persona.cookies
    persona_cookie_writes, \* how often Session.close() assigned the cookies
    persona_call,          \* the last Persona method called and what it saw
    clock                  \* what datetime.now() returns

sessionVars == <<session_closed, session_pages, session_human_delays,
                 session_tasks, session_marks>>
personaVars == <<persona_use_count, persona_last_used, persona_is_burned,
                 persona_cookies, persona_cookie_writes, persona_call, clock>>

VARIABLES
    dict_persona,   \* a Persona object
    dict_data,      \* what Persona.to_dict() returned for it
    dict_back       \* what Persona.from_dict() returned for that dictionary

dictVars == <<dict_persona, dict_data, dict_back>>

VARIABLES
    proxy_fail_count,   \* ProxyInfo.fail_count
    proxy_is_valid,     \* ProxyInfo.is_valid
    proxy_speed_ms,     \* ProxyInfo.speed_ms
    proxy_last_check,   \* ProxyInfo.last_check
    proxy_failures,     \* the mark_failed() calls since the last mark_valid()
    proxy_call          \* the last ProxyInfo method called and what it saw

proxyVars == <<proxy_fail_count, proxy_is_valid, proxy_speed_ms,
               proxy_last_check, proxy_failures, proxy_call>>

VARIABLES
    parse_source,        \* a ProxyInfo whose url is parsed back, or None
    parse_input,         \* the string handed to from_string / from_url
    parse_input_is_url,  \* whether that string is parse_source.url
    parse_call,          \* the last parser called
    parse_result         \* what it returned: a ProxyInfo, or the error raised

parseVars == <<parse_source, parse_input, parse_input_is_url, parse_call,
               parse_result>>

VARIABLES
    config_call,      \* the last configuration call: arguments and outcome
    config_held,      \* the PhantomConfig the last successful call produced
    config_behavior   \* the BehaviorConfig a Session is constructed with

configVars == <<config_call, config_held, config_behavior>>

VARIABLES
    bm_browser_type,  \* BrowserManager.browser_type
    bm_with,          \* whether the caller is inside `async with manager`
    bm_call           \* the last BrowserManager call and its outcome

browserVars == <<bm_browser_type, bm_with, bm_call>>

VARIABLES
    builder_persona,  \* the Persona a ContextManager is constructed with
    builder_call      \* the last create() on it: the options passed, outcome

builderVars == <<builder_persona, builder_call>>

vars == <<registryVars, contextVars, clientVars, sessionVars, personaVars,
          dictVars, proxyVars, parseVars, configVars, browserVars,
          builderVars>>

\* what an operation of one component leaves alone
valueVars ==
    <<dictVars, proxyVars, parseVars, configVars, browserVars, builderVars>>
notRegistryVars ==
    <<contextVars, clientVars, sessionVars, personaVars, valueVars>>
notContextVars ==
    <<registryVars, clientVars, sessionVars, personaVars, valueVars>>
notClientVars == <<sessionVars, personaVars, valueVars>>
notSessionVars == <<registryVars, clientVars, valueVars>>
componentVars ==
    <<registryVars, contextVars, clientVars, sessionVars, personaVars,
      browserVars, builderVars>>
notBrowserVars ==
    <<client_level, client_browser_type, client_started,
      client_browser_manager, client_pc, client_call, registryVars,
      contextVars, sessionVars, personaVars, dictVars, proxyVars, parseVars,
      configVars, builderVars>>

(***************************************************************************)
(* PluginRegistry.                                                         *)
(***************************************************************************)
NoCall == [op |-> "none", raised |-> None]
EmptyRegistry == [name \in {} |-> None]

\* a class that declares no name attribute (Plugin only annotates it)
NamelessClasses ==
    [name : {None}, priority : {DefaultPriority}, compat : {BrowserTypes}]

\* a class that declares the empty string as its name
EmptyNameClasses ==
    [name : {""}, priority : {DefaultPriority}, compat : {BrowserTypes}]

LevelInputs == -1..5

RegistryInit ==
    /\ registry_plugins = EmptyRegistry
    /\ instances_created = 0
    /\ imported = {}
    /\ registry_call = NoCall

\* a fresh Persona: Persona's field defaults
PersonaInit ==
    /\ persona_use_count = 0
    /\ persona_last_used = None
    /\ persona_is_burned = FALSE
    /\ persona_cookies = "{}"
    /\ persona_cookie_writes = 0
    /\ persona_call = NoCall
    /\ clock = 0

\* Python values: every value carries its class, as dataclass equality and
\* isinstance see it
PyNone == [cls |-> "NoneType"]
PyStr(text) == [cls |-> "str", text |-> text]
PyDict(items) == [cls |-> "dict", items |-> items]
DateTime(second, microsecond) ==
    [cls |-> "datetime", second |-> second, microsecond |-> microsecond]

\* no Persona has been serialised
DictIdle ==
    /\ dict_persona = PyNone
    /\ dict_data = PyNone
    /\ dict_back = PyNone

\* a fresh ProxyInfo: ProxyInfo's field defaults
ProxyInit ==
    /\ proxy_fail_count = 0
    /\ proxy_is_valid = TRUE
    /\ proxy_speed_ms = None
    /\ proxy_last_check = None
    /\ proxy_failures = 0
    /\ proxy_call = NoCall

\* no proxy string has been parsed
ParseIdle ==
    /\ parse_source = PyNone
    /\ parse_input = <<>>
    /\ parse_input_is_url = FALSE
    /\ parse_call = "none"
    /\ parse_result = PyNone

\* float values, in tenths of a second, and the float that is not a number
Float(tenths) == [kind |-> "number", tenths |-> tenths]
NaN == [kind |-> "nan"]
\* a < b and a >= b on floats: every comparison with NaN is false
FloatLess(a, b) ==
    a.kind = "number" /\ b.kind = "number" /\ a.tenths < b.tenths
FloatGreaterEqual(a, b) ==
    a.kind = "number" /\ b.kind = "number" /\ a.tenths >= b.tenths

\* BehaviorConfig(): human_delays = True, delay_range = (0.3, 1.5)
DefaultBehaviorConfig ==
    [cls |-> "BehaviorConfig", human_delays |-> TRUE,
     delay_range |-> <<Float(3), Float(15)>>]

\* no configuration has been made: a Session is given BehaviorConfig()
ConfigIdle ==
    /\ config_call = NoCall
    /\ config_held = PyNone
    /\ config_behavior = DefaultBehaviorConfig

\* a BrowserManager("chromium") that was never started, and never called
BrowserIdle ==
    /\ bm_browser_type = "chromium"
    /\ bm_with = FALSE
    /\ bm_call = [op |-> "none", raised |-> "None"]

\* no ContextManager has been handed a Persona
BuilderIdle ==
    /\ builder_persona = PyNone
    /\ builder_call = [op |-> "none", raised |-> "None"]

ValuesIdle ==
    DictIdle /\ ProxyInit /\ ParseIdle /\ ConfigIdle /\ BrowserIdle
        /\ BuilderIdle

\* a call that is not running
IdleTask ==
    [op |-> "none", pc |-> "idle", closed_at_call |-> FALSE, raised |-> None,
     done |-> FALSE, engine_calls |-> 0, waits |-> 0, left |-> 0]

Tasks == 1..2

\* Session.__init__ with the default BehaviorConfig
SessionIdle ==
    /\ session_closed = FALSE
    /\ session_pages = <<>>
    /\ session_human_delays = TRUE
    /\ session_tasks = [t \in Tasks |-> IdleTask]
    /\ session_marks = 0

\* a PhantomPersona(level=1) that is not in use
ClientIdle ==
    /\ client_level = 1
    /\ client_browser_type = "chromium"
    /\ client_started = FALSE
    /\ client_browser_manager = None
    /\ bm_playwright = None
    /\ bm_browser = None
    /\ client_pc = "idle"
    /\ client_call = NoCall

\* no ContextManager has been constructed
ContextIdle ==
    /\ cm_plugins = <<>>
    /\ cm_browser_type = "chromium"
    /\ cm_context = None
    /\ cm_pc = "none"
    /\ cm_todo = <<>>
    /\ cm_storage = None
    /\ cm_call = NoCall
    /\ ctx_state = "none"
    /\ ctx_applied = <<>>
    /\ ctx_close_calls = 0

\* self._plugins.get(name): the entry a registration finds under its name
Registered(name) ==
    IF name \in DOMAIN registry_plugins
    THEN registry_plugins[name] ELSE [cls |-> "NoneType"]

\* register with `self._plugins.setdefault(plugin_class.name, plugin_class)`:
\* the first class registered under a name stays
RegisterKeepsFirst(plugin_class) ==
    IF plugin_class.name = None
    THEN /\ registry_call' = [op |-> "register", raised |-> "AttributeError",
                              plugin_class |-> plugin_class]
         /\ UNCHANGED <<registry_plugins, instances_created, imported,
                        notRegistryVars>>
    ELSE /\ registry_plugins' =
                [name \in DOMAIN registry_plugins \cup {plugin_class.name} |->
                    IF name \in DOMAIN registry_plugins
                    THEN registry_plugins[name] ELSE plugin_class]
         /\ registry_call' = [op |-> "register", raised |-> None,
                              plugin_class |-> plugin_class,
                              replaced |-> Registered(plugin_class.name),
                              returned |-> plugin_class]
         /\ UNCHANGED <<instances_created, imported, notRegistryVars>>

\* PluginRegistry.register(plugin_class): hasattr(plugin_class, "name") is
\* the only test, the class is then stored under whatever its name is
Register(plugin_class) ==
    IF plugin_class.name = None
    THEN /\ registry_call' = [op |-> "register", raised |-> "AttributeError",
                              plugin_class |-> plugin_class]
         /\ UNCHANGED <<registry_plugins, instances_created, imported,
                        notRegistryVars>>
    ELSE /\ registry_plugins' =
                [name \in DOMAIN registry_plugins \cup {plugin_class.name} |->
                    IF name = plugin_class.name THEN plugin_class
                    ELSE registry_plugins[name]]
         /\ registry_call' = [op |-> "register", raised |-> None,
                              plugin_class |-> plugin_class,
                              replaced |-> Registered(plugin_class.name),
                              returned |-> plugin_class]
         /\ UNCHANGED <<instances_created, imported, notRegistryVars>>

\* PluginRegistry.clear()
Clear ==
    /\ registry_plugins' = EmptyRegistry
    /\ registry_call' = [op |-> "clear", raised |-> None]
    /\ UNCHANGED <<instances_created, imported, notRegistryVars>>

\* PluginRegistry.get_for_level(level, browser_type)
GetForLevel(level, browser_type) ==
    IF level \notin ProtectionLevel
    THEN /\ registry_call' = [op |-> "get_for_level", raised |-> "ValueError",
                              level |-> level, browser_type |-> browser_type]
         /\ UNCHANGED <<registry_plugins, instances_created, imported,
                        notRegistryVars>>
    ELSE /\ instances_created + InstantiatedBy(level, registry_plugins)
                <= MaxInstances
         /\ instances_created' =
                instances_created + InstantiatedBy(level, registry_plugins)
         /\ registry_call' =
                [op |-> "get_for_level", raised |-> None,
                 level |-> level, browser_type |-> browser_type,
                 serial |-> instances_created,
                 returned |-> get_for_level(registry_plugins, level,
                                            browser_type, instances_created)]
         /\ UNCHANGED <<registry_plugins, imported, notRegistryVars>>

\* the plugin modules autodiscover() names, the one that exists, and the
\* class that module registers when Python first imports it
PluginModules ==
    <<"phantom_persona.stealth.plugins", "phantom_persona.fingerprint.plugins",
      "phantom_persona.behavior">>
ExistingModules == {"phantom_persona.stealth.plugins"}
BasicStealthPlugin ==
    [name |-> "stealth.basic", priority |-> EarlyPriority,
     compat |-> BrowserTypes]

\* the registry after autodiscover(): importing a module that is absent
\* raises ImportError, which is swallowed; a module already imported is not
\* run again
RegistryAfterAutodiscover ==
    IF ExistingModules \subseteq imported THEN registry_plugins
    ELSE [name \in DOMAIN registry_plugins \cup {BasicStealthPlugin.name} |->
             IF name = BasicStealthPlugin.name THEN BasicStealthPlugin
             ELSE registry_plugins[name]]

\* PluginRegistry.autodiscover()
Autodiscover ==
    /\ registry_plugins' = RegistryAfterAutodiscover
    /\ imported' = imported \cup ExistingModules
    /\ registry_call' = [op |-> "autodiscover", raised |-> None]
    /\ UNCHANGED <<instances_created, notRegistryVars>>

RegistryNext ==
    \/ \E plugin_class \in
              PluginClasses \cup NamelessClasses \cup EmptyNameClasses :
           Register(plugin_class)
    \/ Clear
    \/ Autodiscover
    \/ \E level \in LevelInputs, browser_type \in BrowserTypes :
           GetForLevel(level, browser_type)

(***************************************************************************)
(* core/context.py: ContextManager.  Each action is the code between two   *)
(* awaits; an engine call (new_context, plugin.apply, storage_state,       *)
(* close) completes with "ok" or "raise"; a close() that raises leaves the *)
(* context as it was.                                                      *)
(***************************************************************************)
Outcomes == {"ok", "raise"}

\* a Python dict, by its keys
EmptyDict == [keys |-> {}]
EmptySnapshot ==
    [keys |-> {"cookies", "origins"}, cookies |-> <<>>, origins |-> <<>>]
EngineStorageStates ==
    {EmptySnapshot,
     [keys |-> {"cookies", "origins"}, cookies |-> <<"sid">>, origins |-> <<>>]}

\* the lists of plugin objects a caller may hand to ContextManager: any
\* priorities and compatibilities in any order; create() reads no name, so
\* the i-th object simply carries the i-th name
NameAt(i) ==
    <<"stealth.basic", "stealth.chrome", "fingerprint.navigator">>[((i - 1) % 3) + 1]
PluginLists ==
    UNION {{[i \in 1..n |->
                Instantiate([name |-> NameAt(i), priority |-> f[i].priority,
                             compat |-> f[i].compat], i)] :
               f \in [1..n -> [priority : Priorities, compat : Compatibilities]]} :
           n \in 0..MaxPlugins}

\* the loop of create() up to its next await: plugins that are not
\* compatible with the manager's browser_type are passed over
RECURSIVE SkipIncompatible(_, _)
SkipIncompatible(todo, browser_type) ==
    IF todo = <<>> THEN <<>>
    ELSE IF is_compatible(Head(todo), browser_type) THEN todo
         ELSE SkipIncompatible(Tail(todo), browser_type)

\* ContextManager.__init__(browser, persona, plugins, browser_type)
ContextManagerNew(plugins, browser_type) ==
    /\ cm_pc = "none"
    /\ cm_plugins' = plugins
    /\ cm_browser_type' = browser_type
    /\ cm_context' = None
    /\ cm_pc' = "idle"
    /\ cm_todo' = <<>>
    /\ cm_storage' = None
    /\ cm_call' = [op |-> "__init__", raised |-> None]
    /\ ctx_state' = "none"
    /\ ctx_applied' = <<>>
    /\ ctx_close_calls' = 0
    /\ UNCHANGED notContextVars

\* create(): the options are assembled, builder.build() is awaited
CreateStart ==
    /\ cm_pc = "idle"
    /\ cm_pc' = "create_build"
    /\ cm_call' = [op |-> "create", raised |-> None, returned |-> None,
                   done |-> FALSE, apply_failed |-> FALSE]
    /\ UNCHANGED <<cm_plugins, cm_browser_type, cm_context, cm_todo,
                   cm_storage, ctx_state, ctx_applied, ctx_close_calls,
                   notContextVars>>

\* create() returns self._context
CreateReturns ==
    /\ cm_pc' = "idle"
    /\ cm_todo' = <<>>
    /\ cm_call' = [cm_call EXCEPT !.done = TRUE, !.returned = "context"]

\* create() goes on to the next await, or returns when the loop is over
CreateContinue(todo) ==
    IF todo = <<>> THEN CreateReturns
    ELSE /\ cm_pc' = "create_apply"
         /\ cm_todo' = todo
         /\ UNCHANGED cm_call

\* builder.build() completes: self._context is set and the loop begins
CreateBuilt(outcome) ==
    /\ cm_pc = "create_build"
    /\ IF outcome = "raise"
       THEN /\ cm_pc' = "idle"
            /\ cm_call' = [cm_call EXCEPT !.done = TRUE,
                                          !.raised = "BrowserContextError"]
            /\ UNCHANGED <<cm_context, cm_todo, ctx_state, ctx_applied,
                           ctx_close_calls>>
       ELSE /\ cm_context' = "context"
            /\ ctx_state' = "open"
            /\ ctx_applied' = <<>>
            /\ ctx_close_calls' = 0
            /\ CreateContinue(SkipIncompatible(SortedByPriority(cm_plugins),
                                               cm_browser_type))
    /\ UNCHANGED <<cm_plugins, cm_browser_type, cm_storage, notContextVars>>

\* plugin.apply(self._context) completes
CreateApplied(outcome) ==
    /\ cm_pc = "create_apply"
    /\ IF outcome = "raise"
       THEN /\ cm_pc' = "create_cleanup"
            /\ cm_todo' = <<>>
            /\ cm_call' = [cm_call EXCEPT !.apply_failed = TRUE]
            /\ UNCHANGED ctx_applied
       ELSE /\ ctx_applied' = Append(ctx_applied, Head(cm_todo))
            /\ CreateContinue(SkipIncompatible(Tail(cm_todo), cm_browser_type))
    /\ UNCHANGED <<cm_plugins, cm_browser_type, cm_context, cm_storage,
                   ctx_state, ctx_close_calls, notContextVars>>

\* the handler's self._context.close() completes: when it raises, its
\* exception leaves create() in place of BrowserContextError
CreateCleanedUp(outcome) ==
    /\ cm_pc = "create_cleanup"
    /\ cm_pc' = "idle"
    /\ ctx_close_calls' = ctx_close_calls + 1
    /\ IF outcome = "raise"
       THEN /\ UNCHANGED ctx_state
            /\ cm_call' = [cm_call EXCEPT !.done = TRUE,
                                          !.raised = "EngineError"]
       ELSE /\ ctx_state' = "closed"
            /\ cm_call' = [cm_call EXCEPT !.done = TRUE,
                                          !.raised = "BrowserContextError"]
    /\ UNCHANGED <<cm_plugins, cm_browser_type, cm_context, cm_todo,
                   cm_storage, ctx_applied, notContextVars>>

\* close(): storage = {}; without a context it is returned at once
CloseStart ==
    /\ cm_pc = "idle"
    /\ cm_storage' = EmptyDict
    /\ IF cm_context = None
       THEN /\ cm_pc' = "idle"
            /\ cm_call' = [op |-> "close", raised |-> None, done |-> TRUE,
                           returned |-> EmptyDict, read |-> "none",
                           state |-> EmptyDict, closed |-> "none",
                           closes_before |-> ctx_close_calls]
       ELSE /\ cm_pc' = "close_read"
            /\ cm_call' = [op |-> "close", raised |-> None, done |-> FALSE,
                           returned |-> EmptyDict, read |-> "none",
                           state |-> EmptyDict, closed |-> "none",
                           closes_before |-> ctx_close_calls]
    /\ UNCHANGED <<cm_plugins, cm_browser_type, cm_context, cm_todo,
                   ctx_state, ctx_applied, ctx_close_calls, notContextVars>>

\* a read-back that raises but leaves storage as it was
CloseReadKeepsDict(outcome, state) ==
    /\ cm_pc = "close_read"
    /\ outcome = "ok" => ctx_state = "open"
    /\ cm_pc' = "close_close"
    /\ IF outcome = "raise"
       THEN /\ cm_storage' = cm_storage
            /\ cm_call' = [cm_call EXCEPT !.read = "raised"]
       ELSE /\ cm_storage' = state
            /\ cm_call' = [cm_call EXCEPT !.read = "ok", !.state = state]
    /\ UNCHANGED <<cm_plugins, cm_browser_type, cm_context, cm_todo,
                   ctx_state, ctx_applied, ctx_close_calls, notContextVars>>

\* self._context.storage_state() completes; a closed context has no state
\* to give
CloseRead(outcome, state) ==
    /\ cm_pc = "close_read"
    /\ outcome = "ok" => ctx_state = "open"
    /\ cm_pc' = "close_close"
    /\ IF outcome = "raise"
       THEN /\ cm_storage' = EmptySnapshot
            /\ cm_call' = [cm_call EXCEPT !.read = "raised"]
       ELSE /\ cm_storage' = state
            /\ cm_call' = [cm_call EXCEPT !.read = "ok", !.state = state]
    /\ UNCHANGED <<cm_plugins, cm_browser_type, cm_context, cm_todo,
                   ctx_state, ctx_applied, ctx_close_calls, notContextVars>>

\* the finally block: self._context.close() completes, an exception is
\* swallowed, self._context = None, storage is returned
CloseClosed(outcome) ==
    /\ cm_pc = "close_close"
    /\ cm_pc' = "idle"
    /\ ctx_close_calls' = ctx_close_calls + 1
    /\ ctx_state' = IF outcome = "raise" THEN ctx_state ELSE "closed"
    /\ cm_context' = None
    /\ cm_call' = [cm_call EXCEPT !.done = TRUE, !.returned = cm_storage,
                                  !.closed = IF outcome = "raise" THEN "raised"
                                             ELSE "ok"]
    /\ UNCHANGED <<cm_plugins, cm_browser_type, cm_todo, cm_storage,
                   ctx_applied, notContextVars>>

\* ContextManager.is_active
is_active == cm_context # None

(***************************************************************************)
(* A ContextManager used directly: constructed with any plugin list and    *)
(* browser type, then create() and close() in any order, one at a time.    *)
(***************************************************************************)
InitContext ==
    RegistryInit /\ ContextIdle /\ ClientIdle /\ SessionIdle /\ PersonaInit
        /\ ValuesIdle

NextContext ==
    \/ \E plugins \in PluginLists, browser_type \in BrowserTypes :
           ContextManagerNew(plugins, browser_type)
    \/ CreateStart
    \/ \E outcome \in Outcomes : CreateBuilt(outcome)
    \/ \E outcome \in Outcomes : CreateApplied(outcome)
    \/ \E outcome \in Outcomes : CreateCleanedUp(outcome)
    \/ CloseStart
    \/ \E outcome \in Outcomes, state \in EngineStorageStates :
           CloseRead(outcome, state)
    \/ \E outcome \in Outcomes : CloseClosed(outcome)

SpecContext == InitContext /\ [][NextContext]_vars

(***************************************************************************)
(* The registry on its own: register, clear and get_for_level in any order.*)
(***************************************************************************)
InitRegistry ==
    RegistryInit /\ ContextIdle /\ ClientIdle /\ SessionIdle /\ PersonaInit
        /\ ValuesIdle

NextRegistry == RegistryNext

SpecRegistry == InitRegistry /\ [][NextRegistry]_vars

(***************************************************************************)
(* client.py: PhantomPersona.  start() and close() run the BrowserManager  *)
(* (core/browser.py); new_session() resolves the plugins, constructs a     *)
(* ContextManager and awaits its create().                                 *)
(***************************************************************************)
StartOutcomes == {"ok", "playwright_raise", "launch_raise"}

\* ContextManager.__init__'s default for browser_type
DefaultBrowserType == "chromium"

\* PhantomPersona.start(): autodiscover, then BrowserManager.start()
ClientStart(outcome) ==
    /\ client_pc = "idle"
    /\ cm_pc \in {"none", "idle"}
    /\ IF client_started
       THEN /\ client_call' = [op |-> "start", done |-> TRUE,
                               raised |-> "PhantomException", returned |-> None]
            /\ UNCHANGED <<client_started, client_browser_manager,
                           bm_playwright, bm_browser, registryVars>>
       ELSE /\ registry_plugins' = RegistryAfterAutodiscover
            /\ imported' = imported \cup ExistingModules
            /\ registry_call' = [op |-> "autodiscover", raised |-> None]
            /\ UNCHANGED instances_created
            /\ client_browser_manager' = "manager"
            /\ bm_playwright' = IF outcome = "playwright_raise" THEN None
                                ELSE "playwright"
            /\ bm_browser' = IF outcome = "ok" THEN "browser" ELSE None
            /\ client_started' = (outcome = "ok")
            /\ client_call' =
                   [op |-> "start", done |-> TRUE, returned |-> None,
                    raised |-> IF outcome = "ok" THEN None
                               ELSE "BrowserLaunchError"]
    /\ UNCHANGED <<client_level, client_browser_type, client_pc, contextVars,
                   notClientVars>>

\* a close() without the final `self._started = False`
ClientCloseKeepsStarted ==
    /\ client_pc = "idle"
    /\ cm_pc \in {"none", "idle"}
    /\ IF client_browser_manager # None
       THEN /\ bm_browser' = None
            /\ bm_playwright' = None
       ELSE UNCHANGED <<bm_browser, bm_playwright>>
    /\ client_browser_manager' = None
    /\ client_call' = [op |-> "close", done |-> TRUE, raised |-> None,
                       returned |-> None]
    /\ UNCHANGED <<client_level, client_browser_type, client_pc,
                   client_started, registryVars, contextVars, notClientVars>>

\* PhantomPersona.close(): BrowserManager.close() swallows what the engine
\* raises and clears both handles
ClientClose ==
    /\ client_pc = "idle"
    /\ cm_pc \in {"none", "idle"}
    /\ IF client_browser_manager # None
       THEN /\ bm_browser' = None
            /\ bm_playwright' = None
       ELSE UNCHANGED <<bm_browser, bm_playwright>>
    /\ client_browser_manager' = None
    /\ client_started' = FALSE
    /\ client_call' = [op |-> "close", done |-> TRUE, raised |-> None,
                       returned |-> None]
    /\ UNCHANGED <<client_level, client_browser_type, client_pc,
                   registryVars, contextVars, notClientVars>>

\* new_session() up to its await of context_manager.create()
NewSessionStart ==
    /\ client_pc = "idle"
    /\ cm_pc \in {"none", "idle"}
    /\ IF ~client_started \/ client_browser_manager = None
       THEN /\ client_call' = [op |-> "new_session", done |-> TRUE,
                               raised |-> "PhantomException",
                               returned |-> None]
            /\ UNCHANGED <<client_pc, registryVars, contextVars>>
       ELSE /\ instances_created + InstantiatedBy(client_level, registry_plugins)
                   <= MaxInstances
            /\ instances_created' =
                   instances_created
                       + InstantiatedBy(client_level, registry_plugins)
            /\ registry_call' =
                   [op |-> "get_for_level", raised |-> None,
                    level |-> client_level,
                    browser_type |-> client_browser_type,
                    serial |-> instances_created,
                    returned |-> get_for_level(registry_plugins, client_level,
                                               client_browser_type,
                                               instances_created)]
            /\ UNCHANGED <<registry_plugins, imported>>
            /\ IF bm_browser = None
               THEN /\ client_call' = [op |-> "new_session", done |-> TRUE,
                                       raised |-> "BrowserException",
                                       returned |-> None]
                    /\ UNCHANGED <<client_pc, contextVars>>
               ELSE /\ cm_plugins' = get_for_level(registry_plugins,
                                                   client_level,
                                                   client_browser_type,
                                                   instances_created)
                    /\ cm_browser_type' = DefaultBrowserType
                    /\ cm_context' = None
                    /\ cm_todo' = <<>>
                    /\ cm_storage' = None
                    /\ ctx_state' = "none"
                    /\ ctx_applied' = <<>>
                    /\ ctx_close_calls' = 0
                    /\ cm_pc' = "create_build"
                    /\ cm_call' = [op |-> "create", raised |-> None,
                                   returned |-> None, done |-> FALSE,
                                   apply_failed |-> FALSE]
                    /\ client_pc' = "new_session"
                    /\ client_call' = [op |-> "new_session", done |-> FALSE,
                                       raised |-> None, returned |-> None]
    /\ UNCHANGED <<client_level, client_browser_type, client_started,
                   client_browser_manager, bm_playwright, bm_browser,
                   notClientVars>>

\* create() is over: its exception leaves new_session(), or a Session is
\* built around the context and returned
NewSessionReturns ==
    /\ client_pc = "new_session"
    /\ cm_call.op = "create" /\ cm_call.done
    /\ client_pc' = "idle"
    /\ client_call' =
           IF cm_call.raised # None
           THEN [client_call EXCEPT !.done = TRUE, !.raised = cm_call.raised]
           ELSE [client_call EXCEPT !.done = TRUE, !.returned = "session"]
    /\ UNCHANGED <<client_level, client_browser_type, client_started,
                   client_browser_manager, bm_playwright, bm_browser,
                   registryVars, contextVars, notClientVars>>

(***************************************************************************)
(* A client of any level and browser type over any registry: start, close  *)
(* and new_session in any order, one call at a time.                       *)
(***************************************************************************)
ClientPluginClasses ==
    {c \in PluginClasses : c.priority = DefaultPriority}
        \cup {BasicStealthPlugin}
ClientRegistries ==
    UNION {[names -> ClientPluginClasses] : names \in SUBSET PluginNames}

InitClient ==
    /\ registry_plugins \in
           {r \in ClientRegistries : \A n \in DOMAIN r : r[n].name = n}
    /\ instances_created = 0
    /\ imported \in SUBSET ExistingModules
    /\ registry_call = NoCall
    /\ ContextIdle
    /\ client_level \in ProtectionLevel
    /\ client_browser_type \in BrowserTypes
    /\ client_started = FALSE
    /\ client_browser_manager = None
    /\ bm_playwright = None
    /\ bm_browser = None
    /\ client_pc = "idle"
    /\ client_call = NoCall
    /\ SessionIdle
    /\ PersonaInit
    /\ ValuesIdle

NextClient ==
    \/ \E outcome \in StartOutcomes : ClientStart(outcome)
    \/ ClientClose
    \/ NewSessionStart
    \/ \E outcome \in Outcomes : CreateBuilt(outcome)
    \/ \E outcome \in Outcomes : CreateApplied(outcome)
    \/ \E outcome \in Outcomes : CreateCleanedUp(outcome)
    \/ NewSessionReturns

SpecClient == InitClient /\ [][NextClient]_vars

(***************************************************************************)
(* persona/identity.py: Persona.mark_used and Persona.burn.                *)
(***************************************************************************)
\* a mark_used() that refreshes the timestamp and forgets the count
MarkUsedNoCount ==
    /\ persona_last_used' = clock
    /\ persona_call' = [op |-> "mark_used", raised |-> None,
                        use_count_before |-> persona_use_count,
                        now |-> clock]
    /\ UNCHANGED persona_use_count

\* Persona.mark_used(): last_used = datetime.now(); use_count += 1
MarkUsed ==
    /\ persona_last_used' = clock
    /\ persona_use_count' = persona_use_count + 1
    /\ persona_call' = [op |-> "mark_used", raised |-> None,
                        use_count_before |-> persona_use_count,
                        now |-> clock]

\* the caller marks the persona used
PersonaMarkUsed ==
    /\ persona_use_count < MaxUses
    /\ MarkUsed
    /\ UNCHANGED <<persona_is_burned, persona_cookies, persona_cookie_writes,
                   clock, sessionVars, contextVars, notSessionVars>>

\* Persona.burn(): is_burned = True
PersonaBurn ==
    /\ persona_is_burned' = TRUE
    /\ persona_call' = [op |-> "burn", raised |-> None]
    /\ UNCHANGED <<persona_use_count, persona_last_used, persona_cookies,
                   persona_cookie_writes, clock, sessionVars, contextVars,
                   notSessionVars>>

\* time passes
Tick ==
    /\ clock < MaxClock
    /\ clock' = clock + 1
    /\ UNCHANGED <<persona_use_count, persona_last_used, persona_is_burned,
                   persona_cookies, persona_cookie_writes, persona_call,
                   sessionVars, contextVars, notSessionVars>>

(***************************************************************************)
(* core/session.py: Session.  A call runs as a task; each action is the    *)
(* code of one call between two awaits.  engine_calls and waits count the  *)
(* engine calls and the asyncio.sleep calls the invocation has made.       *)
(***************************************************************************)
Call(op) == [IdleTask EXCEPT !.op = op, !.closed_at_call = session_closed]
Raise(task, error) ==
    [task EXCEPT !.pc = "idle", !.done = TRUE, !.raised = error]
Return(task) == [task EXCEPT !.pc = "idle", !.done = TRUE]
AwaitEngine(task, label) ==
    [task EXCEPT !.pc = label, !.engine_calls = @ + 1]
AwaitSleep(task, label) == [task EXCEPT !.pc = label, !.waits = @ + 1]

SetTask(t, task) == session_tasks' = [session_tasks EXCEPT ![t] = task]
At(t, label) == session_tasks[t].pc = label

EngineCookies == {"engine_cookies"}

\* new_page() without the test of _closed
NewPageStartUnguarded(t) ==
    /\ At(t, "idle")
    /\ Len(session_pages) < MaxPages
    /\ SetTask(t, AwaitEngine(Call("new_page"), "new_page"))
    /\ UNCHANGED <<session_closed, session_pages, session_human_delays,
                   session_marks, personaVars, contextVars, notSessionVars>>

\* new_page(): the test of _closed, then context.new_page() is awaited
NewPageStart(t) ==
    /\ At(t, "idle")
    /\ Len(session_pages) < MaxPages
    /\ IF session_closed
       THEN SetTask(t, Raise(Call("new_page"), "SessionError"))
       ELSE SetTask(t, AwaitEngine(Call("new_page"), "new_page"))
    /\ UNCHANGED <<session_closed, session_pages, session_human_delays,
                   session_marks, personaVars, contextVars, notSessionVars>>

\* context.new_page() completes: the page is appended and returned; a
\* closed context creates no page
NewPageDone(t, outcome) ==
    /\ At(t, "new_page")
    /\ outcome = "ok" => ctx_state = "open"
    /\ IF outcome = "raise"
       THEN /\ SetTask(t, Raise(session_tasks[t], "EngineError"))
            /\ UNCHANGED session_pages
       ELSE /\ SetTask(t, Return(session_tasks[t]))
            /\ session_pages' = Append(session_pages, Len(session_pages) + 1)
    /\ UNCHANGED <<session_closed, session_human_delays, session_marks,
                   personaVars, contextVars, notSessionVars>>

\* close() without the test of _closed
SessionCloseStartUnguarded(t) ==
    /\ At(t, "idle")
    /\ persona_use_count < MaxUses
    /\ SetTask(t, AwaitEngine(Call("close"), "close_cookies"))
    /\ UNCHANGED <<session_closed, session_pages, session_human_delays,
                   session_marks, personaVars, contextVars, notSessionVars>>

\* close(): returns at once when closed, else context.cookies() is awaited
SessionCloseStart(t) ==
    /\ At(t, "idle")
    /\ IF session_closed
       THEN SetTask(t, Return(Call("close")))
       ELSE /\ persona_use_count < MaxUses
            /\ SetTask(t, AwaitEngine(Call("close"), "close_cookies"))
    /\ UNCHANGED <<session_closed, session_pages, session_human_delays,
                   session_marks, personaVars, contextVars, notSessionVars>>

\* context.cookies() completes: the cookies are saved, or the exception is
\* swallowed; then mark_used(), then context.close() is awaited
SessionCloseCookies(t, outcome, cookies) ==
    /\ At(t, "close_cookies")
    /\ IF outcome = "raise"
       THEN UNCHANGED <<persona_cookies, persona_cookie_writes>>
       ELSE /\ persona_cookies' = cookies
            /\ persona_cookie_writes' = persona_cookie_writes + 1
    /\ MarkUsed
    /\ session_marks' = session_marks + 1
    /\ SetTask(t, AwaitEngine(session_tasks[t], "close_context"))
    /\ UNCHANGED <<session_closed, session_pages, session_human_delays,
                   persona_is_burned, clock, contextVars, notSessionVars>>

\* a close() that sets _closed only when context.close() succeeded
SessionCloseContextNoFinally(t, outcome) ==
    /\ At(t, "close_context")
    /\ ctx_close_calls' = ctx_close_calls + 1
    /\ ctx_state' = IF outcome = "raise" THEN ctx_state ELSE "closed"
    /\ session_closed' = (outcome = "ok")
    /\ SetTask(t, Return(session_tasks[t]))
    /\ UNCHANGED <<session_pages, session_human_delays, session_marks,
                   personaVars, cm_plugins, cm_browser_type, cm_context,
                   cm_pc, cm_todo, cm_storage, cm_call, ctx_applied,
                   notSessionVars>>

\* context.close() completes: its exception is swallowed, and the finally
\* block sets _closed
SessionCloseContext(t, outcome) ==
    /\ At(t, "close_context")
    /\ ctx_close_calls' = ctx_close_calls + 1
    /\ ctx_state' = IF outcome = "raise" THEN ctx_state ELSE "closed"
    /\ session_closed' = TRUE
    /\ SetTask(t, Return(session_tasks[t]))
    /\ UNCHANGED <<session_pages, session_human_delays, session_marks,
                   personaVars, cm_plugins, cm_browser_type, cm_context,
                   cm_pc, cm_todo, cm_storage, cm_call, ctx_applied,
                   notSessionVars>>

\* the frame of the helpers: they touch the tasks alone
HelperFrame ==
    UNCHANGED <<session_closed, session_pages, session_human_delays,
                session_marks, personaVars, contextVars, notSessionVars>>

\* human_delay(): no test of _closed; returns at once when human_delays is
\* off, else asyncio.sleep(random.uniform(min, max)) is awaited
HumanDelayStart(t) ==
    /\ At(t, "idle")
    /\ IF ~session_human_delays
       THEN SetTask(t, Return(Call("human_delay")))
       ELSE SetTask(t, AwaitSleep(Call("human_delay"), "delay_sleep"))
    /\ HelperFrame

\* human_type(page, selector, text): the test of _closed, then
\* page.wait_for_selector() is awaited
HumanTypeStart(t, length) ==
    /\ At(t, "idle")
    /\ IF session_closed
       THEN SetTask(t, Raise(Call("human_type"), "SessionError"))
       ELSE SetTask(t, AwaitEngine([Call("human_type") EXCEPT !.left = length],
                                   "type_selector"))
    /\ HelperFrame

\* the loop of human_type before its next character: over, or
\* element.type(char) is awaited
TypeNext(task) ==
    IF task.left = 0 THEN Return(task) ELSE AwaitEngine(task, "type_char")

\* page.wait_for_selector() completes: with None the helper returns
HumanTypeSelector(t, outcome) ==
    /\ At(t, "type_selector")
    /\ SetTask(t, CASE outcome = "raise" ->
                          Raise(session_tasks[t], "EngineError")
                    [] outcome = "none" -> Return(session_tasks[t])
                    [] OTHER -> TypeNext(session_tasks[t]))
    /\ HelperFrame

\* element.type(char) completes: a sleep follows when human_delays is on
HumanTypeChar(t, outcome) ==
    /\ At(t, "type_char")
    /\ LET typed == [session_tasks[t] EXCEPT !.left = @ - 1] IN
       SetTask(t, IF outcome = "raise"
                  THEN Raise(session_tasks[t], "EngineError")
                  ELSE IF session_human_delays
                       THEN AwaitSleep(typed, "type_sleep")
                       ELSE TypeNext(typed))
    /\ HelperFrame

\* human_click(page, selector): the test of _closed, then human_delay(0.1,
\* 0.3), then page.click() is awaited
HumanClickStart(t) ==
    /\ At(t, "idle")
    /\ SetTask(t, IF session_closed
                  THEN Raise(Call("human_click"), "SessionError")
                  ELSE IF session_human_delays
                       THEN AwaitSleep(Call("human_click"), "click_sleep")
                       ELSE AwaitEngine(Call("human_click"), "click_click"))
    /\ HelperFrame

\* page.click() completes
HumanClickDone(t, outcome) ==
    /\ At(t, "click_click")
    /\ SetTask(t, IF outcome = "raise"
                  THEN Raise(session_tasks[t], "EngineError")
                  ELSE Return(session_tasks[t]))
    /\ HelperFrame

\* human_scroll(page, distance): the test of _closed, then page.evaluate()
\* is awaited
HumanScrollStart(t) ==
    /\ At(t, "idle")
    /\ SetTask(t, IF session_closed
                  THEN Raise(Call("human_scroll"), "SessionError")
                  ELSE AwaitEngine(Call("human_scroll"), "scroll_evaluate"))
    /\ HelperFrame

\* page.evaluate() completes: human_delay(0.2, 0.5) follows
HumanScrollEvaluated(t, outcome) ==
    /\ At(t, "scroll_evaluate")
    /\ SetTask(t, IF outcome = "raise"
                  THEN Raise(session_tasks[t], "EngineError")
                  ELSE IF session_human_delays
                       THEN AwaitSleep(session_tasks[t], "scroll_sleep")
                       ELSE Return(session_tasks[t]))
    /\ HelperFrame

\* asyncio.sleep() completes and the helper goes on
SleepDone(t) ==
    /\ session_tasks[t].pc \in
           {"delay_sleep", "type_sleep", "click_sleep", "scroll_sleep"}
    /\ SetTask(t, CASE At(t, "type_sleep") -> TypeNext(session_tasks[t])
                    [] At(t, "click_sleep") ->
                          AwaitEngine(session_tasks[t], "click_click")
                    [] OTHER -> Return(session_tasks[t]))
    /\ HelperFrame

(***************************************************************************)
(* One Session over an open context and its Persona, the calls made one    *)
(* after the other: a call starts when the one before it is over.          *)
(***************************************************************************)
SequentialTasks == {1}
TypeOutcomes == {"element", "none", "raise"}

InitSession ==
    /\ RegistryInit
    /\ ClientIdle
    /\ cm_plugins = <<>>
    /\ cm_browser_type = DefaultBrowserType
    /\ cm_context = "context"
    /\ cm_pc = "idle"
    /\ cm_todo = <<>>
    /\ cm_storage = None
    /\ cm_call = NoCall
    /\ ctx_state = "open"
    /\ ctx_applied = <<>>
    /\ ctx_close_calls = 0
    /\ session_closed = FALSE
    /\ session_pages = <<>>
    /\ session_human_delays \in BOOLEAN
    /\ session_tasks = [t \in Tasks |-> IdleTask]
    /\ session_marks = 0
    /\ PersonaInit
    /\ ValuesIdle

NextSession ==
    \/ PersonaMarkUsed
    \/ PersonaBurn
    \/ Tick
    \/ \E t \in SequentialTasks : NewPageStart(t)
    \/ \E t \in SequentialTasks, outcome \in Outcomes : NewPageDone(t, outcome)
    \/ \E t \in SequentialTasks : SessionCloseStart(t)
    \/ \E t \in SequentialTasks, outcome \in Outcomes,
          cookies \in EngineCookies :
           SessionCloseCookies(t, outcome, cookies)
    \/ \E t \in SequentialTasks, outcome \in Outcomes :
           SessionCloseContext(t, outcome)
    \/ \E t \in SequentialTasks : HumanDelayStart(t)
    \/ \E t \in SequentialTasks, length \in 0..MaxText :
           HumanTypeStart(t, length)
    \/ \E t \in SequentialTasks, outcome \in TypeOutcomes :
           HumanTypeSelector(t, outcome)
    \/ \E t \in SequentialTasks, outcome \in Outcomes :
           HumanTypeChar(t, outcome)
    \/ \E t \in SequentialTasks : HumanClickStart(t)
    \/ \E t \in SequentialTasks, outcome \in Outcomes :
           HumanClickDone(t, outcome)
    \/ \E t \in SequentialTasks : HumanScrollStart(t)
    \/ \E t \in SequentialTasks, outcome \in Outcomes :
           HumanScrollEvaluated(t, outcome)
    \/ \E t \in SequentialTasks : SleepDone(t)

SpecSession == InitSession /\ [][NextSession]_vars

(***************************************************************************)
(* The same Session with new_page() and close() called from two tasks that *)
(* interleave at their awaits.                                             *)
(***************************************************************************)
NextSessionConcurrent ==
    \/ \E t \in Tasks : NewPageStart(t)
    \/ \E t \in Tasks, outcome \in Outcomes : NewPageDone(t, outcome)
    \/ \E t \in Tasks : SessionCloseStart(t)
    \/ \E t \in Tasks, outcome \in Outcomes, cookies \in EngineCookies :
           SessionCloseCookies(t, outcome, cookies)
    \/ \E t \in Tasks, outcome \in Outcomes : SessionCloseContext(t, outcome)

SpecSessionConcurrent == InitSession /\ [][NextSessionConcurrent]_vars

(***************************************************************************)
(* persona/identity.py: Persona.to_dict and Persona.from_dict.             *)
(***************************************************************************)
\* datetime.isoformat(): the microseconds are written when they are not 0
isoformat(dt) ==
    PyStr(IF dt.microsecond = 0 THEN <<dt.second>>
          ELSE <<dt.second, dt.microsecond>>)

\* datetime.fromisoformat(): absent microseconds read as 0
fromisoformat(str) ==
    DateTime(str.text[1], IF Len(str.text) = 2 THEN str.text[2] ELSE 0)

\* bool(value) for the values of created_at and last_used
Truthy(value) ==
    CASE value.cls = "NoneType" -> FALSE
      [] value.cls = "str" -> value.text # <<>>
      [] OTHER -> TRUE

\* dataclasses.asdict(): a dataclass instance becomes a dict of its fields,
\* recursively; any other value is copied
AsDictFlat(obj) == [obj EXCEPT !.cls = "dict"]
AsDictGeo(geo) == IF geo.cls = "GeoInfo" THEN AsDictFlat(geo) ELSE geo
AsDictProxy(proxy) ==
    IF proxy.cls = "ProxyInfo"
    THEN [proxy EXCEPT !.cls = "dict", !.geo = AsDictGeo(@)]
    ELSE proxy
asdict(persona) ==
    [persona EXCEPT !.cls = "dict",
                    !.fingerprint = [@ EXCEPT !.cls = "dict",
                                              !.device = AsDictFlat(@)],
                    !.geo = AsDictGeo(@),
                    !.proxy = AsDictProxy(@)]

\* Persona.to_dict()
to_dict(persona) ==
    [asdict(persona) EXCEPT
        !.created_at = IF Truthy(persona.created_at)
                       THEN isoformat(persona.created_at) ELSE @,
        !.last_used = IF Truthy(persona.last_used)
                      THEN isoformat(persona.last_used) ELSE @]

\* Persona.from_dict(data): DeviceInfo(**device_data) needs a mapping; the
\* proxy, the cookies and the local storage are taken as they are
FromDictRaises(data) == data.fingerprint.device.cls # "dict"

from_dict(data) ==
    [cls |-> "Persona",
     id |-> data.id,
     fingerprint |->
         [data.fingerprint EXCEPT
             !.cls = "Fingerprint",
             !.device = [@ EXCEPT !.cls = "DeviceInfo"]],
     geo |-> [data.geo EXCEPT !.cls = "GeoInfo"],
     proxy |-> data.proxy,
     cookies |-> data.cookies,
     local_storage |-> data.local_storage,
     created_at |-> IF data.created_at.cls = "str"
                    THEN fromisoformat(data.created_at) ELSE data.created_at,
     last_used |-> IF ~Truthy(data.last_used) THEN PyNone
                   ELSE IF data.last_used.cls = "str"
                        THEN fromisoformat(data.last_used)
                        ELSE data.last_used,
     use_count |-> data.use_count,
     is_burned |-> data.is_burned]

\* from_dict stores the DeviceInfo it built in the caller's dictionary
DataAfterFromDict(data) ==
    [data EXCEPT !.fingerprint.device = [@ EXCEPT !.cls = "DeviceInfo"]]

\* the Persona objects that are serialised
DateTimes == {DateTime(second, microsecond) :
                  second \in 0..MaxClock - 1, microsecond \in {0, 7}}
Devices ==
    {[cls |-> "DeviceInfo", type |-> "desktop", platform |-> "Win32",
      vendor |-> "Google Inc.", renderer |-> "ANGLE", screen_width |-> 1920,
      screen_height |-> 1080, color_depth |-> 24, pixel_ratio |-> 1]}
Fingerprints ==
    [cls : {"Fingerprint"}, user_agent : {"Mozilla/5.0"}, device : Devices,
     canvas_hash : {PyNone, PyStr(<<"a1b2">>)}, webgl_hash : {PyNone},
     audio_hash : {PyNone}, fonts : {<<>>, <<"Arial">>}]
GeoInfos ==
    [cls : {"GeoInfo"}, country_code : {"DE"}, country : {"Germany"},
     city : {PyNone, PyStr(<<"Berlin">>)}, timezone : {"Europe/Berlin"},
     language : {"de-DE"}, languages : {<<"de-DE", "en">>}]
PersonaProxies ==
    [cls : {"ProxyInfo"}, host : {"proxy.com"}, port : {8080},
     protocol : {"http"}, username : {PyNone}, password : {PyNone},
     geo : {PyNone} \cup {g \in GeoInfos : g.city = PyNone},
     speed_ms : {PyNone}, is_residential : {FALSE}, is_valid : {TRUE},
     last_check : {PyNone}, fail_count : {0}]
Dicts == {PyDict(<<>>), PyDict(<<<<"sid", "1">>>>)}
Personas ==
    [cls : {"Persona"}, id : {"550e8400"}, fingerprint : Fingerprints,
     geo : GeoInfos, proxy : {PyNone} \cup PersonaProxies, cookies : Dicts,
     local_storage : Dicts, created_at : DateTimes,
     last_used : {PyNone} \cup DateTimes, use_count : 0..1,
     is_burned : BOOLEAN]

\* data = persona.to_dict()
PersonaToDict ==
    /\ dict_persona.cls = "Persona"
    /\ dict_data' = to_dict(dict_persona)
    /\ dict_back' = PyNone
    /\ UNCHANGED <<dict_persona, proxyVars, parseVars, configVars,
                   componentVars>>

\* back = Persona.from_dict(data)
PersonaFromDict ==
    /\ dict_data.cls = "dict"
    /\ IF FromDictRaises(dict_data)
       THEN /\ dict_back' = [cls |-> "TypeError"]
            /\ UNCHANGED dict_data
       ELSE /\ dict_back' = from_dict(dict_data)
            /\ dict_data' = DataAfterFromDict(dict_data)
    /\ UNCHANGED <<dict_persona, proxyVars, parseVars, configVars,
                   componentVars>>

InitPersonaDict ==
    /\ RegistryInit /\ ContextIdle /\ ClientIdle /\ SessionIdle /\ PersonaInit
    /\ dict_persona \in Personas
    /\ dict_data = PyNone
    /\ dict_back = PyNone
    /\ ProxyInit
    /\ ParseIdle
    /\ ConfigIdle
    /\ BrowserIdle
    /\ BuilderIdle

NextPersonaDict == PersonaToDict \/ PersonaFromDict

SpecPersonaDict == InitPersonaDict /\ [][NextPersonaDict]_vars

(***************************************************************************)
(* proxy/models.py: ProxyInfo.mark_failed and ProxyInfo.mark_valid.        *)
(***************************************************************************)
\* the fail_count above which mark_failed() clears is_valid
FailureThreshold == 3

SpeedInputs == {50, 150}

\* a mark_failed() that clears is_valid when fail_count reaches the threshold
MarkFailedAtThreshold ==
    /\ proxy_fail_count < MaxFails
    /\ proxy_fail_count' = proxy_fail_count + 1
    /\ proxy_last_check' = clock
    /\ proxy_is_valid' = IF proxy_fail_count + 1 >= FailureThreshold THEN FALSE
                         ELSE proxy_is_valid
    /\ proxy_failures' = proxy_failures + 1
    /\ proxy_call' = [op |-> "mark_failed", raised |-> None,
                      was_valid |-> proxy_is_valid]
    /\ UNCHANGED <<proxy_speed_ms, dictVars, parseVars, configVars,
                   componentVars>>

\* ProxyInfo.mark_failed()
MarkFailed ==
    /\ proxy_fail_count < MaxFails
    /\ proxy_fail_count' = proxy_fail_count + 1
    /\ proxy_last_check' = clock
    /\ proxy_is_valid' = IF proxy_fail_count + 1 > FailureThreshold THEN FALSE
                         ELSE proxy_is_valid
    /\ proxy_failures' = proxy_failures + 1
    /\ proxy_call' = [op |-> "mark_failed", raised |-> None,
                      was_valid |-> proxy_is_valid]
    /\ UNCHANGED <<proxy_speed_ms, dictVars, parseVars, configVars,
                   componentVars>>

\* ProxyInfo.mark_valid(speed_ms)
MarkValid(speed_ms) ==
    /\ proxy_is_valid' = TRUE
    /\ proxy_fail_count' = 0
    /\ proxy_speed_ms' = speed_ms
    /\ proxy_last_check' = clock
    /\ proxy_failures' = 0
    /\ proxy_call' = [op |-> "mark_valid", raised |-> None,
                      was_valid |-> proxy_is_valid, speed_ms |-> speed_ms]
    /\ UNCHANGED <<dictVars, parseVars, configVars, componentVars>>

InitProxyStatus ==
    /\ RegistryInit /\ ContextIdle /\ ClientIdle /\ SessionIdle /\ PersonaInit
    /\ DictIdle
    /\ ProxyInit
    /\ ParseIdle
    /\ ConfigIdle
    /\ BrowserIdle
    /\ BuilderIdle

NextProxyStatus ==
    \/ MarkFailed
    \/ \E speed_ms \in SpeedInputs : MarkValid(speed_ms)
    \/ Tick

SpecProxyStatus == InitProxyStatus /\ [][NextProxyStatus]_vars

(***************************************************************************)
(* proxy/models.py: ProxyInfo.url, ProxyInfo.from_url and                  *)
(* ProxyInfo.from_string.  A string is a sequence of atoms: the delimiters *)
(* ":", "://" and "@", and words, which hold no delimiter.  The character  *)
(* "/" occurs only in the atom "://".                                      *)
(***************************************************************************)
\* the words made of decimal digits, with their values and lengths
Numerals == {"0", "8", "80", "8080", "70000"}
NumeralValue(atom) ==
    CASE atom = "0" -> 0
      [] atom = "8" -> 8
      [] atom = "80" -> 80
      [] atom = "8080" -> 8080
      [] atom = "70000" -> 70000
NumeralWidth(atom) ==
    CASE atom \in {"0", "8"} -> 1
      [] atom = "80" -> 2
      [] atom = "8080" -> 4
      [] atom = "70000" -> 5
\* the words that are a minus sign and digits
NegativeNumerals == {"-1"}
\* the words that start with a letter, and the words made only of the
\* characters urlsplit allows in a scheme
AlphaWords == {"http", "https", "socks5", "ftp", "h", "H", "u", "p", "x"}
SchemeWords == AlphaWords \cup Numerals \cup NegativeNumerals

\* str.lower()
LowerAtom(atom) == IF atom = "H" THEN "h" ELSE atom
Lower(text) == [k \in DOMAIN text |-> LowerAtom(text[k])]

\* str.find for a set of atoms: the first and the last position, or 0
FirstIndex(text, atoms) ==
    IF \E k \in DOMAIN text : text[k] \in atoms
    THEN CHOOSE k \in DOMAIN text :
             /\ text[k] \in atoms
             /\ \A j \in 1..k - 1 : text[j] \notin atoms
    ELSE 0
LastIndex(text, atoms) ==
    IF \E k \in DOMAIN text : text[k] \in atoms
    THEN CHOOSE k \in DOMAIN text :
             /\ text[k] \in atoms
             /\ \A j \in k + 1..Len(text) : text[j] \notin atoms
    ELSE 0
Before(text, k) == SubSeq(text, 1, k - 1)
After(text, k) == SubSeq(text, k + 1, Len(text))

RECURSIVE Pow10(_)
Pow10(n) == IF n = 0 THEN 1 ELSE 10 * Pow10(n - 1)

\* str.isdigit(), and the value of a string of digits
IsDigits(text) == text # <<>> /\ \A k \in DOMAIN text : text[k] \in Numerals
RECURSIVE DigitsValue(_)
DigitsValue(text) ==
    IF text = <<>> THEN 0
    ELSE DigitsValue(Before(text, Len(text))) *
             Pow10(NumeralWidth(text[Len(text)]))
         + NumeralValue(text[Len(text)])

RECURSIVE DigitsWidth(_)
DigitsWidth(text) ==
    IF text = <<>> THEN 0
    ELSE NumeralWidth(Head(text)) + DigitsWidth(Tail(text))

\* int(string): digits with an optional sign, else ValueError
int(text) ==
    IF IsDigits(text) THEN [ok |-> TRUE, value |-> DigitsValue(text)]
    ELSE IF /\ text # <<>>
            /\ text[1] \in NegativeNumerals
            /\ \A k \in 2..Len(text) : text[k] \in Numerals
         THEN [ok |-> TRUE,
               value |-> 0 - (Pow10(DigitsWidth(Tail(text)))
                                  + DigitsValue(Tail(text)))]
         ELSE [ok |-> FALSE, value |-> 0]

\* str.split(":") of a string that holds no "://"
RECURSIVE Split(_)
Split(text) ==
    LET c == FirstIndex(text, {":"}) IN
    IF c = 0 THEN <<text>>
    ELSE <<Before(text, c)>> \o Split(After(text, c))

\* urllib.parse.urlparse(url): the scheme is what precedes the first colon
\* when that is a letter followed by scheme characters; the netloc follows
\* "//" and ends before the next "/"
UrlScheme(url) ==
    LET c == FirstIndex(url, {":", "://"}) IN
    IF /\ c > 1
       /\ url[1] \in AlphaWords
       /\ \A k \in 1..c - 1 : url[k] \in SchemeWords
    THEN Lower(Before(url, c))
    ELSE <<>>
UrlNetloc(url) ==
    LET c == FirstIndex(url, {":", "://"})
        rest == After(url, c)
        slash == FirstIndex(rest, {"://"})
    IN  IF UrlScheme(url) = <<>> \/ url[c] # "://" THEN <<>>
        ELSE IF slash = 0 THEN rest
             ELSE Append(Before(rest, slash), ":")

\* ParseResult.username, .password, .hostname and .port
HostInfo(netloc) == After(netloc, LastIndex(netloc, {"@"}))
UrlUsername(netloc) ==
    LET a == LastIndex(netloc, {"@"})
        userinfo == Before(netloc, a)
        c == FirstIndex(userinfo, {":"})
    IN  IF a = 0 THEN PyNone
        ELSE PyStr(IF c = 0 THEN userinfo ELSE Before(userinfo, c))
UrlPassword(netloc) ==
    LET a == LastIndex(netloc, {"@"})
        userinfo == Before(netloc, a)
        c == FirstIndex(userinfo, {":"})
    IN  IF a = 0 \/ c = 0 THEN PyNone ELSE PyStr(After(userinfo, c))
UrlHostname(netloc) ==
    LET c == FirstIndex(HostInfo(netloc), {":"})
        hostname == IF c = 0 THEN HostInfo(netloc)
                    ELSE Before(HostInfo(netloc), c)
    IN  IF hostname = <<>> THEN PyNone ELSE PyStr(Lower(hostname))
\* the port: None when absent, ValueError when it is not digits or is above
\* 65535
UrlPort(netloc) ==
    LET c == FirstIndex(HostInfo(netloc), {":"})
        port == IF c = 0 THEN <<>> ELSE After(HostInfo(netloc), c)
    IN  IF port = <<>> THEN [raised |-> FALSE, none |-> TRUE, value |-> 0]
        ELSE IF ~IsDigits(port) \/ DigitsValue(port) > 65535
             THEN [raised |-> TRUE, none |-> FALSE, value |-> 0]
             ELSE [raised |-> FALSE, none |-> FALSE,
                   value |-> DigitsValue(port)]

\* cls(host, port, protocol, username, password): no field is validated
NewProxyInfo(host, port, protocol, username, password) ==
    [cls |-> "ProxyInfo", host |-> host, port |-> port, protocol |-> protocol,
     username |-> username, password |-> password, geo |-> PyNone,
     speed_ms |-> PyNone, is_residential |-> FALSE, is_valid |-> TRUE,
     last_check |-> PyNone, fail_count |-> 0]
ValueError == [cls |-> "ValueError"]
Protocols == {<<"http">>, <<"https">>, <<"socks5">>}

\* ProxyInfo.from_url(url)
from_url(url) ==
    LET netloc == UrlNetloc(url)
        port == UrlPort(netloc)
        protocol == IF UrlScheme(url) # <<>> THEN UrlScheme(url)
                    ELSE <<"http">>
    IN  IF UrlHostname(netloc) = PyNone THEN ValueError
        ELSE IF port.raised THEN ValueError
        ELSE IF port.none \/ port.value = 0 THEN ValueError
        ELSE IF protocol \notin Protocols THEN ValueError
        ELSE NewProxyInfo(UrlHostname(netloc), port.value, PyStr(protocol),
                          UrlUsername(netloc), UrlPassword(netloc))

\* a from_string that takes the first two parts of any longer string
from_string_lenient(s) ==
    LET parts == Split(s) IN
    IF \E k \in DOMAIN s : s[k] = "://" THEN from_url(s)
    ELSE IF Len(parts) = 1 \/ ~int(parts[2]).ok THEN ValueError
    ELSE IF Len(parts) = 4
         THEN NewProxyInfo(PyStr(parts[1]), int(parts[2]).value,
                           PyStr(<<"http">>), PyStr(parts[3]),
                           PyStr(parts[4]))
         ELSE NewProxyInfo(PyStr(parts[1]), int(parts[2]).value,
                           PyStr(<<"http">>), PyNone, PyNone)

\* ProxyInfo.from_string(s)
from_string(s) ==
    LET parts == Split(s) IN
    IF \E k \in DOMAIN s : s[k] = "://" THEN from_url(s)
    ELSE IF Len(parts) = 2
         THEN IF ~int(parts[2]).ok THEN ValueError
              ELSE NewProxyInfo(PyStr(parts[1]), int(parts[2]).value,
                                PyStr(<<"http">>), PyNone, PyNone)
    ELSE IF Len(parts) = 4
         THEN IF ~int(parts[2]).ok THEN ValueError
              ELSE NewProxyInfo(PyStr(parts[1]), int(parts[2]).value,
                                PyStr(<<"http">>), PyStr(parts[3]),
                                PyStr(parts[4]))
    ELSE ValueError

\* urllib.parse.quote(string, safe=""): every character that is not a
\* letter, a digit or one of "_.-~" becomes its percent escape
QuoteAtom(atom) ==
    CASE atom = "@" -> <<"%40">>
      [] atom = ":" -> <<"%3A">>
      [] atom = "!" -> <<"%21">>
      [] atom = "://" -> <<"%3A", "%2F", "%2F">>
      [] OTHER -> <<atom>>
RECURSIVE quote(_)
quote(text) ==
    IF text = <<>> THEN <<>> ELSE QuoteAtom(Head(text)) \o quote(Tail(text))

\* str(port)
PortString(port) ==
    CHOOSE atom \in Numerals \ {"0"} : NumeralValue(atom) = port

\* ProxyInfo.url
url(proxy) ==
    IF Truthy(proxy.username) /\ Truthy(proxy.password)
    THEN proxy.protocol.text \o <<"://">> \o quote(proxy.username.text)
             \o <<":">> \o quote(proxy.password.text) \o <<"@">>
             \o proxy.host.text \o <<":", PortString(proxy.port)>>
    ELSE proxy.protocol.text \o <<"://">> \o proxy.host.text
             \o <<":", PortString(proxy.port)>>

\* the strings that are parsed: every string of a few atoms, the URL and
\* colon-separated shapes over more words, and the urls of ProxyInfo objects
ExhaustiveAtoms == {"http", "h", "8", "0", ":", "://", "@"}
ShortStrings == UNION {[1..n -> ExhaustiveAtoms] : n \in 0..MaxAtoms}
PortWords == {"80", "0", "70000", "-1", "x"}
UrlStrings ==
    {<<scheme, "://">> \o userinfo \o <<host, ":", port>> :
        scheme \in {"http", "https", "socks5", "ftp", "H"},
        userinfo \in {<<>>, <<"u", ":", "p", "@">>, <<"u", "@">>},
        host \in {"h", "H"}, port \in PortWords}
ColonStrings ==
    {<<host, ":", port>> \o more :
        host \in {"h", "H"}, port \in PortWords,
        more \in {<<>>, <<":", "u">>, <<":", "u", ":", "p">>,
                  <<":", "u", ":", "p", ":", "x">>}}
ProxyStrings == ShortStrings \cup UrlStrings \cup ColonStrings

Credentials ==
    {PyNone, PyStr(<<"u">>), PyStr(<<"u", "@">>), PyStr(<<":", "!">>)}
SourceProxies ==
    {NewProxyInfo(PyStr(<<host>>), port, PyStr(protocol), username, password) :
        host \in {"h", "H"}, port \in {80, 8080}, protocol \in Protocols,
        username \in Credentials, password \in Credentials}

\* s = proxy.url
ProxyUrl ==
    /\ parse_source # PyNone
    /\ ~parse_input_is_url
    /\ parse_input' = url(parse_source)
    /\ parse_input_is_url' = TRUE
    /\ parse_call' = "url"
    /\ parse_result' = PyNone
    /\ UNCHANGED <<parse_source, dictVars, proxyVars, configVars,
                   componentVars>>

\* ProxyInfo.from_url(s)
FromUrl ==
    /\ parse_call' = "from_url"
    /\ parse_result' = from_url(parse_input)
    /\ UNCHANGED <<parse_source, parse_input, parse_input_is_url, dictVars,
                   proxyVars, configVars, componentVars>>

\* ProxyInfo.from_string(s)
FromString ==
    /\ parse_call' = "from_string"
    /\ parse_result' = from_string(parse_input)
    /\ UNCHANGED <<parse_source, parse_input, parse_input_is_url, dictVars,
                   proxyVars, configVars, componentVars>>

InitProxyParse ==
    /\ RegistryInit /\ ContextIdle /\ ClientIdle /\ SessionIdle /\ PersonaInit
    /\ DictIdle
    /\ ProxyInit
    /\ parse_source \in {PyNone} \cup SourceProxies
    /\ parse_input \in IF parse_source = PyNone THEN ProxyStrings ELSE {<<>>}
    /\ parse_input_is_url = FALSE
    /\ parse_call = "none"
    /\ parse_result = PyNone
    /\ ConfigIdle
    /\ BrowserIdle
    /\ BuilderIdle

NextProxyParse == ProxyUrl \/ FromUrl \/ FromString

SpecProxyParse == InitProxyParse /\ [][NextProxyParse]_vars

(***************************************************************************)
(* config/levels.py, config/schema.py and config/loader.py:                *)
(* get_plugins_for_level, PhantomConfig, BehaviorConfig and ConfigLoader.  *)
(***************************************************************************)
\* get_plugins_for_level(level): ValueError outside 0..4, else a copy of
\* the level's list
get_plugins_for_level(level) ==
    IF level \notin ProtectionLevel THEN [raised |-> "ValueError"]
    ELSE [raised |-> None, returned |-> LEVEL_PLUGINS[level]]

\* a validate_level that lets level 5 pass
validate_level_to_five(v) == 0 <= v /\ v <= 5

\* PhantomConfig.level: Field(ge=0, le=4) and validate_level
validate_level(v) == 0 <= v /\ v <= 4

\* BehaviorConfig.validate_delay_range(v)
validate_delay_range(v) ==
    IF FloatLess(v[1], Float(0)) THEN FALSE
    ELSE IF FloatLess(v[2], Float(0)) THEN FALSE
    ELSE IF FloatGreaterEqual(v[1], v[2]) THEN FALSE
    ELSE TRUE

\* PhantomConfig(level=level, behavior=BehaviorConfig(delay_range=...))
NewPhantomConfig(level, delay_range) ==
    [cls |-> "PhantomConfig", level |-> level,
     behavior |-> [DefaultBehaviorConfig EXCEPT !.delay_range = delay_range]]

FloatInputs == {Float(tenths) : tenths \in {-1, 0, 3, 15}} \cup {NaN}
DelayRanges == FloatInputs \X FloatInputs

\* the outcome of a call that validates a PhantomConfig: error is what the
\* caller sees when pydantic raises ValidationError
Validated(op, level, delay_range, error) ==
    /\ config_call' =
           IF validate_level(level) /\ validate_delay_range(delay_range)
           THEN [op |-> op, raised |-> None, level |-> level,
                 delay_range |-> delay_range,
                 returned |-> NewPhantomConfig(level, delay_range)]
           ELSE [op |-> op, raised |-> error, level |-> level,
                 delay_range |-> delay_range, returned |-> PyNone]
    /\ config_held' =
           IF validate_level(level) /\ validate_delay_range(delay_range)
           THEN NewPhantomConfig(level, delay_range)
           ELSE config_held

\* get_plugins_for_level(level)
GetPluginsForLevel(level) ==
    /\ config_call' = [op |-> "get_plugins_for_level", level |-> level]
                          @@ get_plugins_for_level(level)
    /\ UNCHANGED <<config_held, config_behavior, dictVars, proxyVars,
                   parseVars, componentVars>>

\* PhantomConfig(level=level)
PhantomConfigNew(level) ==
    /\ Validated("PhantomConfig", level, DefaultBehaviorConfig.delay_range,
                 "ValidationError")
    /\ UNCHANGED <<config_behavior, dictVars, proxyVars, parseVars,
                   componentVars>>

\* ConfigLoader.load({"level": level})
ConfigLoad(level) ==
    /\ Validated("load", level, DefaultBehaviorConfig.delay_range,
                 "ConfigValidationError")
    /\ UNCHANGED <<config_behavior, dictVars, proxyVars, parseVars,
                   componentVars>>

\* ConfigLoader.load({"behavior": {"delay_range": [min, max]}}): the level
\* takes its default
ConfigLoadBehavior(delay_range) ==
    /\ Validated("load_behavior", 1, delay_range, "ConfigValidationError")
    /\ UNCHANGED <<config_behavior, dictVars, proxyVars, parseVars,
                   componentVars>>

\* ConfigLoader.from_level(level)
ConfigFromLevel(level) ==
    /\ Validated("from_level", level, DefaultBehaviorConfig.delay_range,
                 "ConfigValidationError")
    /\ UNCHANGED <<config_behavior, dictVars, proxyVars, parseVars,
                   componentVars>>

\* BehaviorConfig(delay_range=(min, max))
BehaviorConfigNew(delay_range) ==
    /\ config_call' =
           IF validate_delay_range(delay_range)
           THEN [op |-> "BehaviorConfig", raised |-> None,
                 delay_range |-> delay_range,
                 returned |-> [DefaultBehaviorConfig EXCEPT
                                  !.delay_range = delay_range]]
           ELSE [op |-> "BehaviorConfig", raised |-> "ValidationError",
                 delay_range |-> delay_range, returned |-> PyNone]
    /\ UNCHANGED <<config_held, config_behavior, dictVars, proxyVars,
                   parseVars, componentVars>>

\* Session(context, persona, behavior_config): the session holds the
\* BehaviorConfig it is handed, here the one just constructed
SessionFromBehavior ==
    /\ config_call.op = "BehaviorConfig"
    /\ config_call.raised = None
    /\ config_behavior' = config_call.returned
    /\ UNCHANGED <<config_call, config_held, dictVars, proxyVars, parseVars,
                   componentVars>>

\* PhantomPersona.new_session: Session(..., behavior_config =
\* self.config.behavior)
SessionFromConfig ==
    /\ config_held # PyNone
    /\ config_behavior' = config_held.behavior
    /\ UNCHANGED <<config_call, config_held, dictVars, proxyVars, parseVars,
                   componentVars>>

InitConfig ==
    /\ RegistryInit /\ ContextIdle /\ ClientIdle /\ SessionIdle /\ PersonaInit
    /\ DictIdle
    /\ ProxyInit
    /\ ParseIdle
    /\ ConfigIdle
    /\ BrowserIdle
    /\ BuilderIdle

NextConfig ==
    \/ \E level \in LevelInputs : GetPluginsForLevel(level)
    \/ \E level \in LevelInputs : PhantomConfigNew(level)
    \/ \E level \in LevelInputs : ConfigLoad(level)
    \/ \E delay_range \in DelayRanges : ConfigLoadBehavior(delay_range)
    \/ \E level \in LevelInputs : ConfigFromLevel(level)
    \/ \E delay_range \in DelayRanges : BehaviorConfigNew(delay_range)
    \/ SessionFromBehavior
    \/ SessionFromConfig

SpecConfig == InitConfig /\ [][NextConfig]_vars

(***************************************************************************)
(* Properties of PluginRegistry.get_for_level.                             *)
(***************************************************************************)
Resolved == registry_call.op = "get_for_level" /\ registry_call.raised = None

IndexIn(seq, x) == CHOOSE i \in 1..Len(seq) : seq[i] = x

\* the names of the level's list that are registered and accept browser_type
ExpectedNames(level, browser_type) ==
    {LEVEL_PLUGINS[level][i] : i \in 1..Len(LEVEL_PLUGINS[level])}
        \cap {name \in DOMAIN registry_plugins :
                 browser_type \in registry_plugins[name].compat}

\* C5: for a level in 0..4, get_for_level raises nothing and returns exactly
\* one fresh instance for each name of the level's list that is registered and
\* compatible with browser_type: no incompatible plugin, no plugin twice, and
\* an unregistered name is skipped.
C5_ResolveExactlyCompatible ==
    (registry_call.op = "get_for_level"
        /\ registry_call.level \in ProtectionLevel) =>
        /\ registry_call.raised = None
        /\ LET r == registry_call.returned IN
           /\ {r[i].name : i \in 1..Len(r)} =
                  ExpectedNames(registry_call.level, registry_call.browser_type)
           /\ \A i \in 1..Len(r) :
                  /\ registry_call.browser_type \in r[i].compat
                  /\ r[i].priority = registry_plugins[r[i].name].priority
                  /\ r[i].compat = registry_plugins[r[i].name].compat
                  /\ r[i].id >= registry_call.serial
                  /\ r[i].id < instances_created
           /\ \A i, j \in 1..Len(r) :
                  i # j => r[i].name # r[j].name /\ r[i].id # r[j].id

C5_Witness ==
    /\ Resolved
    /\ Len(registry_call.returned) >= 1
    /\ \E i \in 1..Len(LEVEL_PLUGINS[registry_call.level]) :
           LET name == LEVEL_PLUGINS[registry_call.level][i] IN
           /\ name \in DOMAIN registry_plugins
           /\ registry_call.browser_type \notin registry_plugins[name].compat
    /\ \E i \in 1..Len(LEVEL_PLUGINS[registry_call.level]) :
           LEVEL_PLUGINS[registry_call.level][i] \notin DOMAIN registry_plugins

\* C6: the returned list is non-decreasing in priority, and plugins of equal
\* priority keep the order of their names in the level's table.
C6_SortedStable ==
    Resolved =>
        LET r == registry_call.returned
            table == LEVEL_PLUGINS[registry_call.level] IN
        \A i, j \in 1..Len(r) :
            i < j =>
                /\ r[i].priority <= r[j].priority
                /\ r[i].priority = r[j].priority =>
                       IndexIn(table, r[i].name) < IndexIn(table, r[j].name)

C6_Witness ==
    /\ Resolved
    /\ LET r == registry_call.returned
           table == LEVEL_PLUGINS[registry_call.level] IN
       /\ Len(r) = 3
       /\ r[1].priority < r[2].priority
       /\ r[2].priority = r[3].priority
       /\ IndexIn(table, r[2].name) < IndexIn(table, r[1].name)

(***************************************************************************)
(* Properties of ContextManager.                                           *)
(***************************************************************************)
CreateDone == cm_call.op = "create" /\ cm_call.done
CloseDone == cm_call.op = "close" /\ cm_call.done

\* C7: whenever a plugin's apply raises during create(), the context is
\* closed, create() fails with BrowserContextError, and no context is
\* returned.
C7_PluginFailureClosesContext ==
    (CreateDone /\ cm_call.apply_failed) =>
        /\ ctx_state = "closed"
        /\ cm_call.raised = "BrowserContextError"
        /\ cm_call.returned = None

\* C9: close() never raises; with a context it returns the engine's storage
\* state when the read-back succeeds and the empty snapshot when it fails,
\* calls the engine's close() once and leaves the manager inactive, also when
\* that close() raises.
C9_CloseNeverRaises ==
    CloseDone =>
        /\ cm_call.raised = None
        /\ ~is_active
        /\ cm_call.read = "ok" => cm_call.returned = cm_call.state
        /\ cm_call.read = "raised" => cm_call.returned = EmptySnapshot
        /\ cm_call.read # "none" =>
               /\ cm_call.closed # "none"
               /\ ctx_close_calls = cm_call.closes_before + 1

C9_Witness ==
    /\ CloseDone
    /\ cm_call.read = "raised"
    /\ cm_call.closed = "raised"
    /\ cm_call.returned = EmptySnapshot
    /\ ctx_state = "open"

(***************************************************************************)
(* Properties of PhantomPersona.new_session.                               *)
(***************************************************************************)
SessionReturned ==
    /\ client_call.op = "new_session"
    /\ client_call.done
    /\ client_call.returned = "session"

\* C8: the context of a session that new_session() returned has had apply()
\* called for every plugin the registry resolves for the client's level and
\* the client's own browser_type, and for no other plugin.
C8_SessionHasResolvedPlugins ==
    SessionReturned =>
        {ctx_applied[i].name : i \in 1..Len(ctx_applied)} =
            ExpectedNames(client_level, client_browser_type)

(***************************************************************************)
(* Properties of Session and Persona                                       *)
(***************************************************************************)
ActionMethods ==
    {"new_page", "human_delay", "human_type", "human_click", "human_scroll"}

CalledWhenClosed(t, ops) ==
    /\ session_tasks[t].op \in ops
    /\ session_tasks[t].closed_at_call

Rejected(t) ==
    /\ session_tasks[t].done
    /\ session_tasks[t].raised = "SessionError"
    /\ session_tasks[t].engine_calls = 0
    /\ session_tasks[t].waits = 0

\* C1: an action method invoked on a closed session fails with SessionError
\* and makes no engine call and no wait
C1_ClosedSessionRejectsActions ==
    \A t \in Tasks : CalledWhenClosed(t, ActionMethods) => Rejected(t)

\* C2: new_page() on a closed session fails with SessionError, makes no
\* engine call, and the page list of a closed session never changes
C2_NewPageAfterCloseFails ==
    /\ [](\A t \in Tasks : CalledWhenClosed(t, {"new_page"}) => Rejected(t))
    /\ [][session_closed => session_pages' = session_pages]_vars

C2_Witness ==
    \E t \in Tasks :
        /\ CalledWhenClosed(t, {"new_page"})
        /\ session_tasks[t].done
        /\ Len(session_pages) > 0

\* C3: however many close() calls are made one after the other, the persona
\* was marked used once, its cookies were written at most once, the engine's
\* context.close was called once, a close() on a closed session does
\* nothing, and no close() raises
C3_CloseIdempotent ==
    /\ \A t \in Tasks :
           session_tasks[t].op = "close" =>
               /\ session_tasks[t].raised = None
               /\ session_tasks[t].closed_at_call =>
                      /\ session_tasks[t].done
                      /\ session_tasks[t].engine_calls = 0
    /\ session_closed =>
           /\ session_marks = 1
           /\ persona_cookie_writes <= 1
           /\ ctx_close_calls = 1

C3_Witness ==
    \E t \in Tasks :
        /\ CalledWhenClosed(t, {"close"})
        /\ session_tasks[t].done
        /\ session_marks = 1

\* C4: a close() that has returned raised nothing and left the session
\* closed, whatever the engine's cookies() and close() did, and a closed
\* session stays closed
C4_CloseAlwaysTerminal ==
    /\ [](\A t \in Tasks :
              (session_tasks[t].op = "close" /\ session_tasks[t].done) =>
                  /\ session_tasks[t].raised = None
                  /\ session_closed)
    /\ [][session_closed => session_closed']_vars

\* a close() has returned after both cookies() and context.close() failed
C4_Witness ==
    \E t \in Tasks :
        /\ session_tasks[t].op = "close"
        /\ session_tasks[t].done
        /\ ~session_tasks[t].closed_at_call
        /\ persona_cookie_writes = 0
        /\ ctx_state = "open"

\* C10: each mark_used raises use_count by exactly 1 and sets last_used to
\* the time of the call, use_count never decreases and changes only by such
\* a step, and is_burned never goes back to false
C10_PersonaMonotone ==
    /\ [](persona_call.op = "mark_used" =>
              /\ persona_use_count = persona_call.use_count_before + 1
              /\ persona_last_used = persona_call.now)
    /\ [][/\ persona_use_count' >= persona_use_count
          /\ persona_use_count' # persona_use_count =>
                 /\ persona_use_count' = persona_use_count + 1
                 /\ persona_last_used' = clock
          /\ persona_is_burned => persona_is_burned']_vars

\* a burned persona has been marked used by a close() and by the caller
C10_Witness ==
    /\ persona_is_burned
    /\ persona_use_count >= 2
    /\ session_marks = 1
    /\ persona_call.op = "mark_used"

(***************************************************************************)
(* Properties of Persona.to_dict and Persona.from_dict                     *)
(***************************************************************************)
\* C11: the Persona that from_dict builds from p.to_dict() is equal to p in
\* every field
C11_PersonaRoundTrip ==
    dict_back.cls = "Persona" => dict_back = dict_persona

(***************************************************************************)
(* Properties of ProxyInfo                                                 *)
(***************************************************************************)
\* C12: fail_count is the number of mark_failed calls since the last
\* mark_valid (or since construction), is_valid holds exactly when
\* fail_count <= 3, and mark_valid(x) leaves fail_count = 0, is_valid true
\* and speed_ms = x
C12_FailureThreshold ==
    /\ proxy_fail_count = proxy_failures
    /\ proxy_is_valid <=> proxy_fail_count <= 3
    /\ proxy_call.op = "mark_valid" =>
           /\ proxy_fail_count = 0
           /\ proxy_is_valid
           /\ proxy_speed_ms = proxy_call.speed_ms

\* mark_valid has brought back a proxy that four failures had made invalid
C12_Witness ==
    /\ proxy_call.op = "mark_valid"
    /\ ~proxy_call.was_valid
    /\ proxy_fail_count = 0

(***************************************************************************)
(* Properties of ProxyInfo.from_string, ProxyInfo.from_url and             *)
(* ProxyInfo.url                                                           *)
(***************************************************************************)
IsUrlShaped(s) == \E k \in DOMAIN s : s[k] = "://"
Colons(s) == Cardinality({k \in DOMAIN s : s[k] = ":"})
ExpectedFromUrl(scheme, username, password, host, port) ==
    IF <<LowerAtom(scheme)>> \in {<<"http">>, <<"https">>, <<"socks5">>}
           /\ port \in Numerals /\ NumeralValue(port) \in 1..65535
    THEN NewProxyInfo(PyStr(<<LowerAtom(host)>>), NumeralValue(port),
                      PyStr(<<LowerAtom(scheme)>>), username, password)
    ELSE ValueError

\* C13: from_string parses a string holding "://" as
\* protocol://[user:pass@]host:port, where a missing host, a missing port or
\* a protocol other than http, https and socks5 is an error; it reads any
\* other string of two parts as host:port with protocol http and no
\* credentials, of four parts as host:port:user:pass, and raises ValueError
\* for every other number of parts
C13_FromStringShapes ==
    parse_call = "from_string" =>
        LET s == parse_input
            r == parse_result
            words == AlphaWords \cup Numerals \cup NegativeNumerals
        IN  /\ r.cls \in {"ProxyInfo", "ValueError"}
            /\ (IsUrlShaped(s) /\ r.cls = "ProxyInfo") =>
                   /\ r.protocol.text \in {<<"http">>, <<"https">>, <<"socks5">>}
                   /\ r.host.text # <<>>
                   /\ r.port >= 1
            /\ \A scheme \in AlphaWords, host \in AlphaWords, port \in words :
                   /\ s = <<scheme, "://", host, ":", port>> =>
                          r = ExpectedFromUrl(scheme, PyNone, PyNone, host, port)
                   /\ s = <<scheme, "://", "u", ":", "p", "@", host, ":", port>> =>
                          r = ExpectedFromUrl(scheme, PyStr(<<"u">>),
                                              PyStr(<<"p">>), host, port)
                   /\ s = <<scheme, "://", host>> => r = ValueError
                   /\ s = <<scheme, "://", ":", port>> => r = ValueError
            /\ (~IsUrlShaped(s) /\ Colons(s) \notin {1, 3}) => r = ValueError
            /\ (~IsUrlShaped(s) /\ Colons(s) = 1) =>
                   LET c == FirstIndex(s, {":"}) IN
                   IF int(After(s, c)).ok
                   THEN r = NewProxyInfo(PyStr(Before(s, c)),
                                         int(After(s, c)).value,
                                         PyStr(<<"http">>), PyNone, PyNone)
                   ELSE r = ValueError
            /\ (~IsUrlShaped(s) /\ Colons(s) = 3 /\ r.cls = "ProxyInfo") =>
                   /\ r.protocol = PyStr(<<"http">>)
                   /\ \E port \in {SubSeq(s, i, j) : i, j \in 1..Len(s)} :
                          /\ int(port).ok /\ int(port).value = r.port
                          /\ s = r.host.text \o <<":">> \o port \o <<":">>
                                   \o r.username.text \o <<":">>
                                   \o r.password.text

\* from_string has read a string of four parts
C13_Witness ==
    /\ parse_call = "from_string"
    /\ ~IsUrlShaped(parse_input)
    /\ Colons(parse_input) = 3
    /\ parse_result.cls = "ProxyInfo"
    /\ parse_result.username = PyStr(<<"u">>)
    /\ parse_result.password = PyStr(<<"p">>)

\* C14: every ProxyInfo that from_string or from_url returns has a port in
\* 1..65535
C14_PortInRange ==
    (parse_call \in {"from_string", "from_url"}
         /\ parse_result.cls = "ProxyInfo") =>
        parse_result.port \in 1..65535

\* C15: for a ProxyInfo p with username and password set, from_url(p.url)
\* has the protocol, host, port, username and password of p
C15_UrlRoundTrip ==
    (/\ parse_call = "from_url"
     /\ parse_input_is_url
     /\ Truthy(parse_source.username)
     /\ Truthy(parse_source.password)) =>
        parse_result =
            NewProxyInfo(parse_source.host, parse_source.port,
                         parse_source.protocol, parse_source.username,
                         parse_source.password)

(***************************************************************************)
(* Properties of the configuration                                         *)
(***************************************************************************)
NamesOf(list) == {list[k] : k \in DOMAIN list}

\* C16: every name listed for level N-1 is listed for level N (N in 1..4),
\* so the list is empty only at level 0 and never gets shorter as the level
\* rises, and get_plugins_for_level returns the level's list for 0..4
C16_LevelsCumulative ==
    /\ \A level \in 1..4 :
           /\ NamesOf(LEVEL_PLUGINS[level - 1]) \subseteq
                  NamesOf(LEVEL_PLUGINS[level])
           /\ Len(LEVEL_PLUGINS[level - 1]) <= Len(LEVEL_PLUGINS[level])
           /\ LEVEL_PLUGINS[level] # <<>>
    /\ LEVEL_PLUGINS[0] = <<>>
    /\ (config_call.op = "get_plugins_for_level"
            /\ config_call.level \in 0..4) =>
           /\ config_call.raised = None
           /\ config_call.returned = LEVEL_PLUGINS[config_call.level]

\* get_plugins_for_level has returned the list of level 4
C16_Witness ==
    /\ config_call.op = "get_plugins_for_level"
    /\ config_call.level = 4
    /\ config_call.raised = None
    /\ Len(config_call.returned) = 23

\* C17: PhantomConfig(level=n), ConfigLoader.load({level: n}) and
\* ConfigLoader.from_level(n) return a configuration with level n for n in
\* 0..4, and for any other n raise a validation error and produce none
C17_LevelValidated ==
    /\ config_call.op \in {"PhantomConfig", "load", "from_level"} =>
           IF config_call.level \in 0..4
           THEN /\ config_call.raised = None
                /\ config_call.returned.cls = "PhantomConfig"
                /\ config_call.returned.level = config_call.level
                /\ config_held = config_call.returned
           ELSE /\ config_call.raised =
                       IF config_call.op = "PhantomConfig"
                       THEN "ValidationError" ELSE "ConfigValidationError"
                /\ config_call.returned = PyNone
    /\ config_held # PyNone => config_held.level \in 0..4

\* from_level(5) has failed after a configuration had been made
C17_Witness ==
    /\ config_call.op = "from_level"
    /\ config_call.level = 5
    /\ config_call.raised = "ConfigValidationError"
    /\ config_held # PyNone

\* 0 <= min < max on floats
ValidDelayRange(delay_range) ==
    /\ FloatGreaterEqual(delay_range[1], Float(0))
    /\ FloatLess(delay_range[1], delay_range[2])

\* C18: BehaviorConfig accepts delay_range (min, max) exactly when
\* 0 <= min < max, and the BehaviorConfig a Session holds has min < max
C18_DelayRangeValidated ==
    /\ config_call.op = "BehaviorConfig" =>
           (config_call.raised = None <=>
                ValidDelayRange(config_call.delay_range))
    /\ ValidDelayRange(config_behavior.delay_range)

(***************************************************************************)
(* PluginRegistry.register: overwriting and the name requirement.          *)
(***************************************************************************)

\* the step is a call of register with a class whose name is one of `names`
RegisterStepOf(names) ==
    /\ registry_call'.op = "register"
    /\ registry_call'.plugin_class.name \in names

\* C19: a register call of a class that declares a name never raises, and
\* leaves the registry mapping that name to the class just registered (an
\* earlier entry of the name is replaced), every other name to what it was
\* mapped to, with one entry per distinct name
C19_LastWriterWins ==
    [][RegisterStepOf(PluginNames \cup {""}) =>
           LET plugin_class == registry_call'.plugin_class IN
           /\ registry_call'.raised = None
           /\ registry_call'.returned = plugin_class
           /\ DOMAIN registry_plugins' =
                  DOMAIN registry_plugins \cup {plugin_class.name}
           /\ registry_plugins'[plugin_class.name] = plugin_class
           /\ \A name \in DOMAIN registry_plugins \ {plugin_class.name} :
                  registry_plugins'[name] = registry_plugins[name]
           /\ Cardinality(DOMAIN registry_plugins') =
                  Cardinality(DOMAIN registry_plugins)
                      + (IF plugin_class.name \in DOMAIN registry_plugins
                         THEN 0 ELSE 1)]_vars

\* a registration has replaced a different class of the same name, next to
\* an entry of another name
C19_Witness ==
    /\ registry_call.op = "register"
    /\ registry_call.raised = None
    /\ registry_call.plugin_class.name \in PluginNames
    /\ registry_call.replaced # [cls |-> "NoneType"]
    /\ registry_call.replaced # registry_call.plugin_class
    /\ registry_plugins[registry_call.plugin_class.name] =
           registry_call.plugin_class
    /\ Cardinality(DOMAIN registry_plugins) = 2

\* C20: a register call of a class with no name or with the empty name
\* raises and leaves the registry as it was
C20_NameRequired ==
    [][RegisterStepOf({None, ""}) =>
           /\ registry_call'.raised # None
           /\ registry_plugins' = registry_plugins]_vars

(***************************************************************************)
(* plugins/registry.py: autodiscover() under every outcome of the three    *)
(* imports.  importlib.import_module returns at once for a module Python   *)
(* has already imported; otherwise the module is absent                    *)
(* (ModuleNotFoundError, a subclass of ImportError), loads and registers   *)
(* its plugin class, or raises while it is executed: an ImportError or an  *)
(* error of another class.  `except ImportError` is the only handler.      *)
(***************************************************************************)
ImportOutcomes == {"loads", "ModuleNotFoundError", "ImportError", "RuntimeError"}

\* the exception classes `except ImportError` catches
ImportErrors == {"ModuleNotFoundError", "ImportError"}

ModuleNames == {PluginModules[i] : i \in 1..Len(PluginModules)}

\* the class a plugin module registers (@register_plugin) when it is executed
ModuleClass(module_name) ==
    IF module_name = "phantom_persona.stealth.plugins" THEN BasicStealthPlugin
    ELSE IF module_name = "phantom_persona.fingerprint.plugins"
    THEN [name |-> "fingerprint.navigator", priority |-> DefaultPriority,
          compat |-> BrowserTypes]
    ELSE [name |-> "behavior.delays", priority |-> DefaultPriority,
          compat |-> BrowserTypes]

\* `except ImportError:` catches the error
Caught(error) == error \in ImportErrors

\* the loop `for module_name in modules` from the i-th module on; `run` holds
\* the registry, the imported modules, the modules attempted and executed,
\* and the error that left the loop
RECURSIVE ImportFrom(_, _, _)
ImportFrom(i, outcomes, run) ==
    IF i > Len(PluginModules) \/ run.raised # None THEN run
    ELSE LET module_name == PluginModules[i]
             tried == [run EXCEPT !.attempted = @ \cup {module_name}]
         IN  IF module_name \in run.imported
             THEN ImportFrom(i + 1, outcomes, tried)
             ELSE IF outcomes[module_name] = "loads"
             THEN ImportFrom(i + 1, outcomes,
                      [tried EXCEPT
                          !.imported = @ \cup {module_name},
                          !.executed = @ \cup {module_name},
                          !.plugins =
                              [name \in DOMAIN @
                                   \cup {ModuleClass(module_name).name} |->
                                  IF name = ModuleClass(module_name).name
                                  THEN ModuleClass(module_name)
                                  ELSE @[name]]])
             ELSE IF Caught(outcomes[module_name])
             THEN ImportFrom(i + 1, outcomes, tried)
             ELSE [tried EXCEPT !.raised = outcomes[module_name]]

\* PluginRegistry.autodiscover() where importing module m has outcomes[m]
AutodiscoverWith(outcomes) ==
    LET run == ImportFrom(1, outcomes,
                   [plugins |-> registry_plugins, imported |-> imported,
                    attempted |-> {}, executed |-> {}, raised |-> None])
    IN  /\ registry_plugins' = run.plugins
        /\ imported' = run.imported
        /\ registry_call' = [op |-> "autodiscover", raised |-> run.raised,
                             outcomes |-> outcomes,
                             attempted |-> run.attempted,
                             executed |-> run.executed,
                             before |-> registry_plugins]
        /\ UNCHANGED <<instances_created, notRegistryVars>>

InitAutodiscover == InitRegistry

NextAutodiscover ==
    \/ \E outcomes \in [ModuleNames -> ImportOutcomes] :
           AutodiscoverWith(outcomes)
    \/ Clear

SpecAutodiscover == InitAutodiscover /\ [][NextAutodiscover]_vars

\* C21: autodiscover() returns normally whatever the imports do, attempts
\* every module, registers the class of every module it executed and keeps
\* every registration made before the call
C21_AutodiscoverNeverFatal ==
    registry_call.op = "autodiscover" =>
        /\ registry_call.raised = None
        /\ registry_call.attempted = ModuleNames
        /\ \A module_name \in registry_call.executed :
               /\ ModuleClass(module_name).name \in DOMAIN registry_plugins
               /\ registry_plugins[ModuleClass(module_name).name] =
                      ModuleClass(module_name)
        /\ DOMAIN registry_call.before \subseteq DOMAIN registry_plugins

(***************************************************************************)
(* Properties of PhantomPersona.start, close and new_session.              *)
(***************************************************************************)

\* the step is a call of the client method `op`: the client is between
\* calls and the step leaves a record of that method
ClientCallStep(op) ==
    /\ client_pc = "idle"
    /\ client_call'.op = op

\* C22: new_session() on a client that is not started raises PhantomException
\* and creates no context, and goes on to create one only on a started
\* client; start() on a started client raises PhantomException and leaves the
\* browser and is_started as they were; close() never raises and leaves
\* is_started false
C22_ClientLifecycle ==
    [][/\ ClientCallStep("new_session") =>
              IF client_started
              THEN client_call'.raised # "PhantomException"
              ELSE /\ client_call'.done
                   /\ client_call'.raised = "PhantomException"
                   /\ client_call'.returned = None
                   /\ UNCHANGED contextVars
       /\ (ClientCallStep("start") /\ client_started) =>
              /\ client_call'.raised = "PhantomException"
              /\ UNCHANGED <<client_started, client_browser_manager,
                             bm_playwright, bm_browser>>
       /\ ClientCallStep("close") =>
              /\ client_call'.raised = None
              /\ ~client_started'
       /\ (client_pc = "new_session" /\ client_pc' = "idle"
               /\ client_call'.returned = "session") => client_started
      ]_vars

\* start() has been refused on a client whose browser is running
C22_Witness ==
    /\ client_call.op = "start"
    /\ client_call.raised = "PhantomException"
    /\ client_started
    /\ bm_browser = "browser"

(***************************************************************************)
(* core/browser.py: BrowserManager.  start() acquires the Playwright       *)
(* driver and then the browser; each of the two engine calls may raise,    *)
(* and getattr(self._playwright, self.browser_type) raises AttributeError  *)
(* for a name that is no browser of the driver.  close() closes the        *)
(* browser and stops the driver, each inside try/except/finally.           *)
(***************************************************************************)
EngineOutcomes == {"ok", "raise"}
BrowserTypeInputs == BrowserTypes \cup {"opera"}

\* the property BrowserManager.is_running, `connected` being what the
\* engine's browser.is_connected() answers
is_running(connected) == bm_browser # None /\ connected

\* what start() does to the manager, for the caller `op`
Started(op, outcome) ==
    /\ bm_playwright' = IF outcome = "playwright_raise" THEN bm_playwright
                        ELSE "playwright"
    /\ bm_browser' = IF outcome = "ok" /\ bm_browser_type \in BrowserTypes
                     THEN "browser" ELSE bm_browser
    /\ bm_call' =
           [op |-> op,
            fresh |-> (bm_playwright = None /\ bm_browser = None),
            raised |-> IF outcome = "ok" /\ bm_browser_type \in BrowserTypes
                       THEN None ELSE "BrowserLaunchError",
            returned |-> IF outcome = "ok" /\ bm_browser_type \in BrowserTypes
                         THEN IF op = "start" THEN "browser" ELSE "self"
                         ELSE None]

\* a close() whose try blocks have no `finally`: a handle whose engine call
\* raised is kept
ClosedNoFinally(op, browser_close, playwright_stop) ==
    /\ bm_browser' = IF browser_close = "raise" THEN bm_browser ELSE None
    /\ bm_playwright' = IF playwright_stop = "raise" THEN bm_playwright
                        ELSE None
    /\ bm_call' =
           [op |-> op, raised |-> None,
            browser_close |-> IF bm_browser = None THEN "none"
                              ELSE browser_close,
            playwright_stop |-> IF bm_playwright = None THEN "none"
                                ELSE playwright_stop]

\* what close() does to the manager, for the caller `op`: browser.close()
\* and playwright.stop() are awaited only for a handle that is set, what
\* they raise is swallowed, and the handle is cleared in the finally block
Closed(op, browser_close, playwright_stop) ==
    /\ bm_browser' = None
    /\ bm_playwright' = None
    /\ bm_call' =
           [op |-> op, raised |-> None,
            browser_close |-> IF bm_browser = None THEN "none"
                              ELSE browser_close,
            playwright_stop |-> IF bm_playwright = None THEN "none"
                                ELSE playwright_stop]

\* BrowserManager.start()
BrowserStart(outcome) ==
    /\ Started("start", outcome)
    /\ UNCHANGED <<bm_browser_type, bm_with, notBrowserVars>>

\* BrowserManager.close()
BrowserClose(browser_close, playwright_stop) ==
    /\ Closed("close", browser_close, playwright_stop)
    /\ UNCHANGED <<bm_browser_type, bm_with, notBrowserVars>>

\* `async with manager:` is entered: __aenter__ awaits start(); when that
\* raises the block is not entered and __aexit__ is never called
BrowserEnter(outcome) ==
    /\ ~bm_with
    /\ Started("__aenter__", outcome)
    /\ bm_with' = (outcome = "ok" /\ bm_browser_type \in BrowserTypes)
    /\ UNCHANGED <<bm_browser_type, notBrowserVars>>

\* the block is left: __aexit__ awaits close()
BrowserExit(browser_close, playwright_stop) ==
    /\ bm_with
    /\ Closed("__aexit__", browser_close, playwright_stop)
    /\ bm_with' = FALSE
    /\ UNCHANGED <<bm_browser_type, notBrowserVars>>

\* the property BrowserManager.browser
BrowserGet ==
    /\ bm_call' = IF bm_browser = None
                  THEN [op |-> "browser", raised |-> "BrowserException",
                        returned |-> None]
                  ELSE [op |-> "browser", raised |-> None,
                        returned |-> bm_browser]
    /\ UNCHANGED <<bm_playwright, bm_browser, bm_browser_type, bm_with,
                   notBrowserVars>>

\* reading BrowserManager.is_running
BrowserIsRunning(connected) ==
    /\ bm_call' = [op |-> "is_running", raised |-> None,
                   returned |-> is_running(connected)]
    /\ UNCHANGED <<bm_playwright, bm_browser, bm_browser_type, bm_with,
                   notBrowserVars>>

InitBrowser ==
    /\ RegistryInit /\ ContextIdle /\ ClientIdle /\ SessionIdle /\ PersonaInit
    /\ DictIdle /\ ProxyInit /\ ParseIdle /\ ConfigIdle /\ BuilderIdle
    /\ bm_browser_type \in BrowserTypeInputs
    /\ bm_with = FALSE
    /\ bm_call = NoCall

NextBrowser ==
    \/ \E outcome \in StartOutcomes : BrowserStart(outcome)
    \/ \E browser_close \in EngineOutcomes, playwright_stop \in EngineOutcomes :
           BrowserClose(browser_close, playwright_stop)
    \/ \E outcome \in StartOutcomes : BrowserEnter(outcome)
    \/ \E browser_close \in EngineOutcomes, playwright_stop \in EngineOutcomes :
           BrowserExit(browser_close, playwright_stop)
    \/ BrowserGet
    \/ \E connected \in BOOLEAN : BrowserIsRunning(connected)

SpecBrowser == InitBrowser /\ [][NextBrowser]_vars

(***************************************************************************)
(* Properties of BrowserManager.                                           *)
(***************************************************************************)
StartCalls == {"start", "__aenter__"}
CloseCalls == {"close", "__aexit__"}

\* C23: close() never raises and leaves both handles cleared, whatever the
\* engine's close and stop do and however often it is called; a manager
\* without a browser handle is not running and its browser property raises
\* BrowserException
C23_BrowserCloseIdempotent ==
    /\ bm_call.op \in CloseCalls =>
           /\ bm_call.raised = None
           /\ bm_playwright = None
           /\ bm_browser = None
    /\ (bm_call.op = "is_running" /\ bm_browser = None) =>
           bm_call.returned = FALSE
    /\ (bm_call.op = "browser" /\ bm_browser = None) =>
           bm_call.raised = "BrowserException"

\* close() has swallowed the failure of both engine calls
C23_Witness ==
    /\ bm_call.op = "close"
    /\ bm_call.browser_close = "raise"
    /\ bm_call.playwright_stop = "raise"
    /\ bm_browser = None
    /\ bm_playwright = None

\* C29: when start() of a manager that held nothing fails, the manager
\* holds neither a Playwright driver nor a browser
C29_FailedStartReleases ==
    (bm_call.op \in StartCalls /\ bm_call.fresh /\ bm_call.raised # None) =>
        /\ bm_playwright = None
        /\ bm_browser = None

(***************************************************************************)
(* Properties of the plugin loop of ContextManager.create.                 *)
(***************************************************************************)
Applied == {ctx_applied[i] : i \in 1..Len(ctx_applied)}

\* the plugins of the manager that create() applies: the compatible ones
Applicable ==
    {cm_plugins[i] : i \in {j \in 1..Len(cm_plugins) :
                               is_compatible(cm_plugins[j], cm_browser_type)}}

\* C24: create() has one apply in progress at a time, on a plugin whose
\* apply has not completed; every applicable plugin of lower priority has
\* completed before and no plugin of higher priority has; the completed
\* applies are in ascending priority order; after an apply has raised no
\* further plugin is applied
C24_AppliedInPriorityOrder ==
    /\ [](/\ \A i, j \in 1..Len(ctx_applied) :
                 i < j => ctx_applied[i].priority <= ctx_applied[j].priority
          /\ cm_pc = "create_apply" =>
                 /\ cm_todo # <<>>
                 /\ Head(cm_todo) \in Applicable \ Applied
                 /\ \A p \in Applied : p.priority <= Head(cm_todo).priority
                 /\ \A p \in Applicable :
                        p.priority < Head(cm_todo).priority => p \in Applied)
    /\ [][(/\ cm_call.op = "create"
           /\ cm_call.apply_failed
           /\ cm_call'.op = "create"
           /\ cm_call'.apply_failed) =>
              /\ ctx_applied' = ctx_applied
              /\ cm_pc' # "create_apply"]_vars

\* create() has returned after applying two plugins in the reverse of the
\* order in which the list names them
C24_Witness ==
    /\ cm_call.op = "create"
    /\ cm_call.done
    /\ cm_call.raised = None
    /\ Len(cm_plugins) = 2
    /\ cm_plugins[1].priority > cm_plugins[2].priority
    /\ ctx_applied = <<cm_plugins[2], cm_plugins[1]>>

(***************************************************************************)
(* core/context.py: the options ContextManager.create() assembles with     *)
(* ContextBuilder and passes to browser.new_context, and                   *)
(* ProxyInfo.playwright_proxy (proxy/models.py).  A Python dict is a       *)
(* record of its keys and their values.                                    *)
(***************************************************************************)

\* f"{self.protocol}://{self.host}:{self.port}"
ProxyServer(proxy) ==
    proxy.protocol.text \o <<"://">> \o proxy.host.text
        \o <<":", PortString(proxy.port)>>

\* a descriptor that names the server by ProxyInfo.url, credentials included
playwright_proxy_with_url(proxy) ==
    [keys |-> {"server"}
                 \cup (IF Truthy(proxy.username) THEN {"username"} ELSE {})
                 \cup (IF Truthy(proxy.password) THEN {"password"} ELSE {}),
     server |-> url(proxy),
     username |-> proxy.username,
     password |-> proxy.password]

\* ProxyInfo.playwright_proxy: "username" and "password" are keys of the
\* dict when `if self.username:` and `if self.password:` hold
playwright_proxy(proxy) ==
    [keys |-> {"server"}
                 \cup (IF Truthy(proxy.username) THEN {"username"} ELSE {})
                 \cup (IF Truthy(proxy.password) THEN {"password"} ELSE {}),
     server |-> ProxyServer(proxy),
     username |-> proxy.username,
     password |-> proxy.password]

\* bool(value) of a dict or of None, as `if self.persona.proxy:` and
\* `if self.persona.cookies:` test it; an object of a class that defines
\* neither __bool__ nor __len__ is true
Bool(value) ==
    CASE value.cls = "NoneType" -> FALSE
      [] value.cls = "dict" /\ "items" \in DOMAIN value -> value.items # <<>>
      [] OTHER -> TRUE

\* ContextBuilder.with_persona(persona): the keys it sets in _options
PersonaOptionKeys ==
    {"user_agent", "viewport", "locale", "timezone_id", "color_scheme",
     "device_scale_factor", "geolocation", "permissions"}

\* create() up to `await builder.build()`: the options of the builder, or
\* the AttributeError of builder.with_proxy when persona.proxy is an object
\* without the property playwright_proxy
CreateOptions(persona) ==
    IF Bool(persona.proxy) /\ persona.proxy.cls # "ProxyInfo"
    THEN [raised |-> "AttributeError", options |-> PyNone]
    ELSE [raised |-> None,
          options |->
              [keys |-> PersonaOptionKeys
                            \cup (IF Bool(persona.proxy) THEN {"proxy"}
                                  ELSE {})
                            \cup (IF Bool(persona.cookies)
                                  THEN {"storage_state"} ELSE {}),
               user_agent |-> persona.fingerprint.user_agent,
               locale |-> persona.geo.language,
               timezone_id |-> persona.geo.timezone,
               proxy |-> IF Bool(persona.proxy)
                         THEN playwright_proxy(persona.proxy) ELSE PyNone,
               storage_state |->
                   IF Bool(persona.cookies)
                   THEN [keys |-> {"cookies", "origins"},
                         cookies |-> persona.cookies, origins |-> <<>>]
                   ELSE PyNone]]

\* the personas a ContextManager is constructed with: without a proxy, with
\* a ProxyInfo, and with the dict that Persona.from_dict leaves in `proxy`
BuilderCredentials ==
    {PyNone, PyStr(<<>>), PyStr(<<"u">>), PyStr(<<"u", "@">>)}
BuilderProxies ==
    {NewProxyInfo(PyStr(<<"h">>), port, PyStr(protocol), username, password) :
        port \in {80, 8080}, protocol \in Protocols,
        username \in BuilderCredentials, password \in BuilderCredentials}
BuilderPersonas ==
    {[p EXCEPT !.proxy = proxy, !.cookies = cookies] :
        p \in {q \in Personas :
                  /\ q.fingerprint.canvas_hash = PyNone
                  /\ q.fingerprint.fonts = <<>>
                  /\ q.geo.city = PyNone
                  /\ q.proxy = PyNone
                  /\ q.local_storage = PyDict(<<>>)
                  /\ q.created_at = DateTime(0, 0)
                  /\ q.last_used = PyNone
                  /\ q.use_count = 0
                  /\ ~q.is_burned},
        proxy \in {PyNone} \cup BuilderProxies
                     \cup {AsDictProxy(x) : x \in BuilderProxies},
        cookies \in Dicts}

\* ContextManager(browser, persona, plugins).create() up to the return of
\* builder.build(): browser.new_context(**options) is called with the
\* options and succeeds or raises
ContextCreateOptions(outcome) ==
    /\ builder_persona # PyNone
    /\ LET built == CreateOptions(builder_persona) IN
       builder_call' =
           [op |-> "create",
            passed |-> built.options,
            raised |-> IF built.raised # None THEN built.raised
                       ELSE IF outcome = "raise" THEN "BrowserContextError"
                       ELSE None]
    /\ UNCHANGED <<builder_persona, dictVars, proxyVars, parseVars,
                   configVars, browserVars, registryVars, contextVars,
                   clientVars, sessionVars, personaVars>>

InitBuilder ==
    /\ RegistryInit /\ ContextIdle /\ ClientIdle /\ SessionIdle /\ PersonaInit
    /\ DictIdle /\ ProxyInit /\ ParseIdle /\ ConfigIdle /\ BrowserIdle
    /\ builder_persona \in BuilderPersonas
    /\ builder_call = NoCall

NextBuilder == \E outcome \in Outcomes : ContextCreateOptions(outcome)

SpecBuilder == InitBuilder /\ [][NextBuilder]_vars

\* C25: for a persona whose proxy is None or a ProxyInfo, create() calls
\* new_context, and the options it passes have the key "proxy" exactly when
\* the persona has a proxy and the key "storage_state" exactly when its
\* cookies are not empty; the descriptor's server is protocol://host:port
\* without "@", and it has the keys "username" and "password", with the
\* proxy's values, exactly for a credential that is a non-empty string
C25_ContextOptions ==
    (builder_call.op = "create"
        /\ builder_persona.proxy.cls \in {"NoneType", "ProxyInfo"}) =>
        LET options == builder_call.passed
            proxy == builder_persona.proxy
        IN  /\ options # PyNone
            /\ "proxy" \in options.keys <=> proxy # PyNone
            /\ "storage_state" \in options.keys <=>
                   builder_persona.cookies.items # <<>>
            /\ "storage_state" \in options.keys =>
                   options.storage_state.cookies = builder_persona.cookies
            /\ "proxy" \in options.keys =>
                   /\ options.proxy.server =
                          proxy.protocol.text \o <<"://">> \o proxy.host.text
                              \o <<":", PortString(proxy.port)>>
                   /\ \A i \in 1..Len(options.proxy.server) :
                          options.proxy.server[i] # "@"
                   /\ \A field \in {"username", "password"} :
                          /\ field \in options.proxy.keys <=>
                                 (proxy[field] # PyNone
                                     /\ proxy[field] # PyStr(<<>>))
                          /\ field \in options.proxy.keys =>
                                 options.proxy[field] = proxy[field]

\* the options passed for a persona with cookies and a proxy that has both
\* credentials
C25_Witness ==
    /\ builder_call.op = "create"
    /\ builder_call.raised = None
    /\ builder_persona.proxy.cls = "ProxyInfo"
    /\ builder_persona.proxy.username = PyStr(<<"u", "@">>)
    /\ builder_persona.proxy.password = PyStr(<<"u">>)
    /\ builder_persona.cookies.items # <<>>
    /\ builder_call.passed.proxy.keys = {"server", "username", "password"}
    /\ "storage_state" \in builder_call.passed.keys

(***************************************************************************)
(* Properties of Session.close and Session.new_page called concurrently.   *)
(***************************************************************************)

\* C26: however close() calls interleave, the persona is marked used once
\* and the engine's context.close() is called once: never more, and exactly
\* once when the session is closed
C26_ConcurrentCloseOnce ==
    /\ session_marks <= 1
    /\ persona_use_count <= 1
    /\ ctx_close_calls <= 1
    /\ session_closed =>
           /\ session_marks = 1
           /\ persona_use_count = 1
           /\ ctx_close_calls = 1

\* C27: the page list of a closed session does not change
C27_ClosedSessionPagesFrozen ==
    [][session_closed => session_pages' = session_pages]_vars

(***************************************************************************)
(* Properties of ContextManager.context and ContextManager.is_active.      *)
(***************************************************************************)

\* the property ContextManager.context: `if not self._context` it raises
ContextProperty ==
    IF cm_context = None
    THEN [raised |-> "BrowserContextError", returned |-> None]
    ELSE [raised |-> None, returned |-> cm_context]

\* C28: once create() has failed in a plugin's apply, and once close() has
\* returned, is_active is false and the context property raises
\* BrowserContextError
C28_ClosedContextNotExposed ==
    ((CreateDone /\ cm_call.apply_failed) \/ CloseDone) =>
        /\ ~is_active
        /\ ContextProperty.raised = "BrowserContextError"

(***************************************************************************)
(* Properties of Persona.from_dict on its argument.                        *)
(***************************************************************************)

\* C30: after any number of from_dict(data) calls, data is the mapping that
\* to_dict() returned, nested mappings included, and the call has returned
\* a Persona
C30_FromDictLeavesInput ==
    dict_back # PyNone =>
        /\ dict_data = to_dict(dict_persona)
        /\ dict_data.fingerprint.device.cls = "dict"
        /\ dict_back.cls = "Persona"

====
